---- MODULE Spec2Model ----
(***************************************************************************)
(* Model of pkg/reconciler/dependencybuild/buildrecipeyaml.go: the         *)
(* synthesis of the Tekton pipeline, the diagnostic Containerfile, the     *)
(* Konflux Containerfile and the build script of a dependency build.       *)
(*                                                                         *)
(* Representation.  A Go string that ends up in generated text is a TEXT:  *)
(* a sequence of atoms (TLA+ strings) whose concatenation, Flat(t), is the *)
(* Go string.  Every "$(...)" reference and every "{{...}}" placeholder is *)
(* one atom, so strings.ReplaceAll on such a pattern is the replacement of *)
(* the atoms equal to it.  Tags, image ids and tag prefixes are texts      *)
(* whose atoms are single characters, so that len() and slicing are exact. *)
(* Names (parameter names, task names, tools) are plain TLA+ strings.      *)
(*                                                                         *)
(* Each function under study is applied by one action to arguments drawn   *)
(* by the initial predicate: fn names the function, args holds the         *)
(* arguments, ret the returned values, pc the position of the call.        *)
(***************************************************************************)
EXTENDS Integers, Sequences, FiniteSets, TLC

VARIABLES fn, args, ret, pc, heap

vars == <<fn, args, ret, pc, heap>>

NoRet == [none |-> TRUE]

\* The calls of the Go functions touch no object.
NoHeap == [none |-> TRUE]

(***************************************************************************)
(* Text helpers (Go strings package).                                      *)
(***************************************************************************)
RECURSIVE FlatRange(_, _, _)
FlatRange(t, lo, hi) ==
    IF lo > hi THEN ""
    ELSE IF lo = hi THEN t[lo]
    ELSE LET mid == (lo + hi) \div 2
         IN  FlatRange(t, lo, mid) \o FlatRange(t, mid + 1, hi)

Flat(t) == FlatRange(t, 1, Len(t))

\* The concatenation of the texts ts[lo], ..., ts[hi].
RECURSIVE ConcatRange(_, _, _)
ConcatRange(ts, lo, hi) ==
    IF lo > hi THEN <<>>
    ELSE IF lo = hi THEN ts[lo]
    ELSE LET mid == (lo + hi) \div 2
         IN  ConcatRange(ts, lo, mid) \o ConcatRange(ts, mid + 1, hi)

Concat(ts) == ConcatRange(ts, 1, Len(ts))

Rep(c, n) == [i \in 1..n |-> c]

T(s) == IF s = "" THEN <<>> ELSE <<s>>

Join(ts, sep) ==
    Concat([i \in 1..Len(ts) |-> IF i = 1 THEN ts[i] ELSE T(sep) \o ts[i]])

ReplaceAll(s, old, new) ==
    Concat([i \in 1..Len(s) |-> IF s[i] = old THEN new ELSE <<s[i]>>])

LastIndex(s, c) ==
    LET I == {i \in 1..Len(s) : s[i] = c}
    IN  IF I = {} THEN 0 ELSE CHOOSE i \in I : \A j \in I : j <= i

HasSuffix(s, suffix) ==
    /\ Len(s) >= Len(suffix)
    /\ SubSeq(s, Len(s) - Len(suffix) + 1, Len(s)) = suffix

TrimSpace(s) == SelectSeq(s, LAMBDA a : a \notin {" ", "\t", "\n"})

(***************************************************************************)
(* Names declared in pkg/apis and used by the generator.                   *)
(***************************************************************************)
WorkspaceBuildSettings == "build-settings"
WorkspaceSource == "source"
WorkspaceMount == "/var/workdir"
WorkspaceTls == "tls"

PreBuildTaskName == "pre-build"
BuildTaskName == "build"
PostBuildTaskName == "post-build"
TagTaskName == "tag"

PipelineBuildId == "DEPENDENCY_BUILD"
PipelineParamScmUrl == "URL"
PipelineParamScmTag == "TAG"
PipelineParamScmHash == "HASH"
PipelineParamChainsGitUrl == "CHAINS-GIT_URL"
PipelineParamChainsGitCommit == "CHAINS-GIT_COMMIT"
PipelineParamGoals == "GOALS"
PipelineParamJavaVersion == "JAVA_VERSION"
PipelineParamToolVersion == "TOOL_VERSION"
PipelineParamPath == "CONTEXT_DIR"
PipelineParamEnforceVersion == "ENFORCE_VERSION"
PipelineParamProjectVersion == "PROJECT_VERSION"
PipelineParamCacheUrl == "CACHE_URL"
JavaHome == "JAVA_HOME"

PipelineResultImage == "IMAGE_URL"
PipelineResultImageDigest == "IMAGE_DIGEST"
PipelineResultPreBuildImageDigest == "PRE_BUILD_IMAGE_DIGEST"
PipelineResultContaminants == "CONTAMINANTS"
PipelineResultDeployedResources == "DEPLOYED_RESOURCES"
PipelineResultPassedVerification == "PASSED_VERIFICATION"
PipelineResultVerificationResult == "VERIFICATION_RESULTS"
PipelineResultGitArchive == "GIT_ARCHIVE"

ParamTypeString == "string"
ParamTypeArray == "array"

StringParam(name, val) ==
    [Name |-> name, Value |-> [Type |-> ParamTypeString, StringVal |-> val, ArrayVal |-> <<>>]]

ArrayParam(name, vals) ==
    [Name |-> name, Value |-> [Type |-> ParamTypeArray, StringVal |-> <<>>, ArrayVal |-> vals]]

ImageRegistry(jbsConfig) == jbsConfig.Spec.Registry

(***************************************************************************)
(* prependTagToImage and registryArgsWithDefaults.                          *)
(***************************************************************************)
MaxTagLength == 128

prependTagToImageKeepTail(imageId, prependTag) ==
    LET i == LastIndex(imageId, ":")
        slice == IF i # 0 THEN SubSeq(imageId, 1, i - 1) \o <<":">> ELSE <<>>
        tag == IF i # 0
               THEN prependTag \o <<"_">> \o SubSeq(imageId, i + 1, Len(imageId))
               ELSE IF prependTag # <<>>
                    THEN prependTag \o <<"_">> \o imageId
                    ELSE imageId
        cut == IF Len(tag) > MaxTagLength
               THEN SubSeq(tag, Len(tag) - MaxTagLength + 1, Len(tag))
               ELSE tag
    IN  slice \o cut

prependTagToImage(imageId, prependTag) ==
    LET i == LastIndex(imageId, ":")
        slice == IF i # 0 THEN SubSeq(imageId, 1, i - 1) \o <<":">> ELSE <<>>
        tag == IF i # 0
               THEN prependTag \o <<"_">> \o SubSeq(imageId, i + 1, Len(imageId))
               ELSE IF prependTag # <<>>
                    THEN prependTag \o <<"_">> \o imageId
                    ELSE imageId
        cut == IF Len(tag) > MaxTagLength THEN SubSeq(tag, 1, MaxTagLength) ELSE tag
    IN  slice \o cut

\* An address with every configured port written, the default one too.
registryArgsWithDefaultsAnyPort(jbsConfig, preBuildImageTag) ==
    LET imageRegistry == ImageRegistry(jbsConfig)
        host == IF imageRegistry.Host # <<>> THEN imageRegistry.Host ELSE <<"quay.io">>
        port == IF imageRegistry.Port # <<>> THEN <<":">> \o imageRegistry.Port ELSE <<>>
        owner == IF imageRegistry.Owner # <<>>
                 THEN imageRegistry.Owner \o <<"/">> ELSE <<>>
        repo == IF imageRegistry.Repository # <<>>
                THEN imageRegistry.Repository ELSE <<"artifact-deployments">>
        tag == IF preBuildImageTag # <<>>
               THEN <<":">> \o prependTagToImage(preBuildImageTag, imageRegistry.PrependTag)
               ELSE <<>>
    IN  host \o port \o <<"/">> \o owner \o repo \o tag

registryArgsWithDefaults(jbsConfig, preBuildImageTag) ==
    LET imageRegistry == ImageRegistry(jbsConfig)
        host == IF imageRegistry.Host # <<>> THEN imageRegistry.Host ELSE <<"quay.io">>
        port == IF imageRegistry.Port # <<>> /\ Flat(imageRegistry.Port) # "443"
                THEN <<":">> \o imageRegistry.Port ELSE <<>>
        owner == IF imageRegistry.Owner # <<>>
                 THEN imageRegistry.Owner \o <<"/">> ELSE <<>>
        repo == IF imageRegistry.Repository # <<>>
                THEN imageRegistry.Repository ELSE <<"artifact-deployments">>
        tag == IF preBuildImageTag # <<>>
               THEN <<":">> \o prependTagToImage(preBuildImageTag, imageRegistry.PrependTag)
               ELSE <<>>
    IN  host \o port \o <<"/">> \o owner \o repo \o tag

(***************************************************************************)
(* Resource quantities.  resource.ParseQuantity is modelled on the         *)
(* quantity strings the defaults and the inputs use: memory quantities are *)
(* counted in Mi, CPU quantities in millicores; any other string does not  *)
(* parse.                                                                  *)
(***************************************************************************)
QuantityStrings == {"512Mi", "1024Mi", "2Gi", "10m", "300m", "500m", "2"}

QuantityValue(str) ==
    CASE str = "512Mi" -> 512
      [] str = "1024Mi" -> 1024
      [] str = "2Gi" -> 2048
      [] str = "10m" -> 10
      [] str = "300m" -> 300
      [] str = "500m" -> 500
      [] str = "2" -> 2000

ParseQuantity(s) ==
    IF Flat(s) \in QuantityStrings
    THEN [err |-> "nil", q |-> QuantityValue(Flat(s))]
    ELSE [err |-> "quantities must match the regular expression", q |-> 0]

settingOrDefaultNoTrim(setting, def) ==
    IF Len(setting) = 0 THEN <<def>> ELSE setting

settingOrDefault(setting, def) ==
    IF Len(TrimSpace(setting)) = 0 THEN <<def>> ELSE setting

NilLimits == [nil |-> TRUE]

\* Limits with the additional memory added to every memory quantity.
memoryLimitsAddToAll(jbsConfig, additionalMemory) ==
    LET bs == jbsConfig.Spec.BuildSettings
        parsed == [f \in {"TaskRequestMemory", "BuildRequestMemory", "TaskRequestCPU",
                          "TaskLimitCPU", "BuildRequestCPU", "BuildLimitCPU"} |->
                     ParseQuantity(settingOrDefault(bs[f],
                        CASE f = "TaskRequestMemory" -> "512Mi"
                          [] f = "BuildRequestMemory" -> "1024Mi"
                          [] f = "TaskRequestCPU" -> "10m"
                          [] f = "TaskLimitCPU" -> "300m"
                          [] f = "BuildRequestCPU" -> "300m"
                          [] f = "BuildLimitCPU" -> "2"))]
        additional == IF additionalMemory > 0 THEN additionalMemory ELSE 0
    IN  IF \E f \in DOMAIN parsed : parsed[f].err # "nil"
        THEN [limits |-> NilLimits, err |-> "quantities must match the regular expression"]
        ELSE [limits |->
                [defaultRequestMemory |-> parsed["TaskRequestMemory"].q + additional,
                 defaultBuildRequestMemory |-> parsed["BuildRequestMemory"].q + additional,
                 defaultRequestCPU |-> parsed["TaskRequestCPU"].q,
                 defaultLimitCPU |-> parsed["TaskLimitCPU"].q,
                 buildRequestCPU |-> parsed["BuildRequestCPU"].q,
                 buildLimitCPU |-> parsed["BuildLimitCPU"].q,
                 buildRequestMemory |-> parsed["BuildRequestMemory"].q + additional],
              err |-> "nil"]

memoryLimits(jbsConfig, additionalMemory) ==
    LET bs == jbsConfig.Spec.BuildSettings
        defaultRequestMemory == ParseQuantity(settingOrDefault(bs.TaskRequestMemory, "512Mi"))
        defaultBuildRequestMemory == ParseQuantity(settingOrDefault(bs.BuildRequestMemory, "1024Mi"))
        defaultRequestCPU == ParseQuantity(settingOrDefault(bs.TaskRequestCPU, "10m"))
        defaultLimitCPU == ParseQuantity(settingOrDefault(bs.TaskLimitCPU, "300m"))
        buildRequestCPU == ParseQuantity(settingOrDefault(bs.BuildRequestCPU, "300m"))
        buildLimitCPU == ParseQuantity(settingOrDefault(bs.BuildLimitCPU, "2"))
        additional == IF additionalMemory > 0 THEN additionalMemory ELSE 0
    IN  IF defaultRequestMemory.err # "nil" THEN [limits |-> NilLimits, err |-> defaultRequestMemory.err]
        ELSE IF defaultBuildRequestMemory.err # "nil" THEN [limits |-> NilLimits, err |-> defaultBuildRequestMemory.err]
        ELSE IF defaultRequestCPU.err # "nil" THEN [limits |-> NilLimits, err |-> defaultRequestCPU.err]
        ELSE IF defaultLimitCPU.err # "nil" THEN [limits |-> NilLimits, err |-> defaultLimitCPU.err]
        ELSE IF buildRequestCPU.err # "nil" THEN [limits |-> NilLimits, err |-> buildRequestCPU.err]
        ELSE IF buildLimitCPU.err # "nil" THEN [limits |-> NilLimits, err |-> buildLimitCPU.err]
        ELSE [limits |->
                [defaultRequestMemory |-> defaultRequestMemory.q + additional,
                 defaultBuildRequestMemory |-> defaultBuildRequestMemory.q,
                 defaultRequestCPU |-> defaultRequestCPU.q,
                 defaultLimitCPU |-> defaultLimitCPU.q,
                 buildRequestCPU |-> buildRequestCPU.q,
                 buildLimitCPU |-> buildLimitCPU.q,
                 buildRequestMemory |-> defaultBuildRequestMemory.q + additional],
              err |-> "nil"]

\* A cap that takes a ceiling of zero for a ceiling.
cappedAdditionalMemoryAlways(recipe, systemConfig) ==
    IF recipe.AdditionalMemory > systemConfig.Spec.MaxAdditionalMemory
    THEN systemConfig.Spec.MaxAdditionalMemory
    ELSE recipe.AdditionalMemory

\* createPipelineSpec's cap of the recipe's additional memory.
cappedAdditionalMemory(recipe, systemConfig) ==
    IF systemConfig.Spec.MaxAdditionalMemory > 0
       /\ recipe.AdditionalMemory > systemConfig.Spec.MaxAdditionalMemory
    THEN systemConfig.Spec.MaxAdditionalMemory
    ELSE recipe.AdditionalMemory

(***************************************************************************)
(* Parameter extraction and substitution.                                  *)
(***************************************************************************)
\* regexp "[(]|[)]" replaced by "": every parenthesis character is removed.
RemoveParens(j) == SelectSeq(j, LAMBDA a : a \notin {"(", ")"})

extractArrayParamFirstOnly(key, paramValues) ==
    Concat([i \in 1..Len(paramValues) |->
              IF paramValues[i].Name = key /\ Len(paramValues[i].Value.ArrayVal) > 0
              THEN RemoveParens(paramValues[i].Value.ArrayVal[1]) \o <<" ">>
              ELSE <<>>])

extractArrayParam(key, paramValues) ==
    Concat([i \in 1..Len(paramValues) |->
              IF paramValues[i].Name = key
              THEN Concat([j \in 1..Len(paramValues[i].Value.ArrayVal) |->
                             RemoveParens(paramValues[i].Value.ArrayVal[j]) \o <<" ">>])
              ELSE <<>>])

extractEnvVar(envVar) ==
    Concat([i \in 1..Len(envVar) |->
              <<"export ", envVar[i].Name, "=">> \o envVar[i].Value \o <<"\n">>])

FormatInt(n) == ToString(n)

RECURSIVE substituteParams(_, _)
substituteParams(script, paramValues) ==
    IF paramValues = <<>> THEN script
    ELSE LET i == Head(paramValues)
         IN  substituteParams(
                 IF i.Value.Type = ParamTypeString
                 THEN ReplaceAll(script, "$(params." \o i.Name \o ")", i.Value.StringVal)
                 ELSE script,
                 Tail(paramValues))

doSubstitution(script, paramValues, commitTime, buildRepos) ==
    LET s1 == substituteParams(script, paramValues)
        s2 == ReplaceAll(s1, "$(params.CACHE_URL)",
                         <<"http://localhost:8080/v2/cache/rebuild">> \o buildRepos
                            \o <<"/", FormatInt(commitTime), "/">>)
        s3 == ReplaceAll(s2, "$(workspaces.build-settings.path)", <<"/var/workdir/software/settings">>)
        s4 == ReplaceAll(s3, "$(workspaces.source.path)", <<"/var/workdir/workspace">>)
    IN  ReplaceAll(s4, "$(workspaces.tls.path)", <<"/var/workdir/software/tls/service-ca.crt">>)

(***************************************************************************)
(* Embedded resources (go:embed scripts/...) and the helpers of package    *)
(* artifactbuild.  Their text is opaque: one atom each, except that the    *)
(* build entry script holds the four placeholders and the package template *)
(* its six.                                                                *)
(***************************************************************************)
mavenBuild == <<"#maven-build.sh\n">>
mavenSettings == <<"#maven-settings.sh\n">>
gradleBuild == <<"#gradle-build.sh\n">>
sbtBuild == <<"#sbt-build.sh\n">>
antBuild == <<"#ant-build.sh\n">>
dockerfileEntryScript == <<"#dockerfile-entry-script.sh\n">>

buildEntryScript ==
    <<"#!/usr/bin/env bash\nset -eu\n",
      "{{INSTALL_PACKAGE_SCRIPT}}", "\n", "{{PRE_BUILD_SCRIPT}}", "\n",
      "{{BUILD}}", "\n", "{{POST_BUILD_SCRIPT}}", "\n">>

packageTemplate ==
    <<"\ninstall-package ", "{URI}", " ", "{FILENAME}", " ", "{SHA256}", " ", "{TYPE}",
      " ", "{BINARY_PATH}", " ", "{PACKAGE_NAME}", "\n">>

\* strings.TrimSpace(strings.Split(buildTrustedArtifacts, "FROM")[1])
buildTrustedArtifactsImage == <<"quay.io/redhat-appstudio/build-trusted-artifacts", ":latest">>

InstallKeystoreScript == <<"#install-keystore\n">>

\* One java invocation per argument list, after the keystore installation.
InstallKeystoreIntoBuildRequestProcessor(argLists) ==
    InstallKeystoreScript
    \o Concat([k \in 1..Len(argLists) |->
                 <<"/opt/jboss/container/java/run/run-java.sh ">> \o Join(argLists[k], " ") \o <<"\n">>])

\* base64.StdEncoding.EncodeToString: an injective, character-wise image of
\* the text, none of whose atoms is an atom of plain text.
EncodeToString(t) == [k \in 1..Len(t) |-> "b64<" \o t[k] \o ">"]

TestRegistry == "jvmbuildservice.io/test-registry"
DependencyScmAnnotation == "jvmbuildservice.io/dependency-scm"
KonfluxBuildDefinitions == <<"https://raw.githubusercontent.com/konflux-ci/build-definitions/main/task/buildah-oci-ta/0.2/buildah-oci-ta.yaml">>
DefaultTimeout == "time.Hour * v1alpha1.DefaultTimeout"
NoTimeout == "nil"
GitSecretName == <<"jvm-build-git-secrets">>
GitSecretTokenKey == ".git-credentials"
ImageSecretTokenKey == ".dockerconfigjson"
MavenSecretName == <<"jvm-build-maven-repo-secrets">>
MavenSecretKey == "mavenpassword"
AWSSecretName == <<"jvm-build-s3-secrets">>
AWSAccessID == "awsaccesskey"
AWSSecretKey == "awssecretkey"
AWSProfile == "awsprofile"
GitRepoSecretName == <<"jvm-build-git-repo-secrets">>
GitRepoSecretKey == "gitdeploytoken"

PullIfNotPresent == "IfNotPresent"
PullAlways == "Always"

\* Go map lookup: the zero value for an absent key.
MapGet(m, k, zero) == IF k \in DOMAIN m THEN m[k] ELSE zero

(***************************************************************************)
(* Helpers of createPipelineSpec.                                          *)
(***************************************************************************)
EnvValue(name, value) ==
    [Name |-> name, Value |-> value, FromSecret |-> FALSE,
     SecretName |-> <<>>, Key |-> "", Optional |-> FALSE]

EnvSecret(name, secretName, key) ==
    [Name |-> name, Value |-> <<>>, FromSecret |-> TRUE,
     SecretName |-> secretName, Key |-> key, Optional |-> TRUE]

secretVariablesAll(jbsConfig) ==
    <<EnvSecret("REGISTRY_TOKEN", ImageRegistry(jbsConfig).SecretName, ImageSecretTokenKey),
      EnvSecret("MAVEN_PASSWORD", MavenSecretName, MavenSecretKey),
      EnvSecret("AWS_ACCESS_KEY_ID", AWSSecretName, AWSAccessID),
      EnvSecret("AWS_SECRET_ACCESS_KEY", AWSSecretName, AWSSecretKey),
      EnvSecret("AWS_PROFILE", AWSSecretName, AWSProfile),
      EnvSecret("GIT_DEPLOY_TOKEN", GitRepoSecretName, GitRepoSecretKey)>>

secretVariables(jbsConfig) ==
    (IF ImageRegistry(jbsConfig).SecretName # <<>>
     THEN <<EnvSecret("REGISTRY_TOKEN", ImageRegistry(jbsConfig).SecretName, ImageSecretTokenKey)>>
     ELSE <<>>)
    \o (IF jbsConfig.Spec.MavenDeployment.Repository # <<>>
        THEN <<EnvSecret("MAVEN_PASSWORD", MavenSecretName, MavenSecretKey),
               EnvSecret("AWS_ACCESS_KEY_ID", AWSSecretName, AWSAccessID),
               EnvSecret("AWS_SECRET_ACCESS_KEY", AWSSecretName, AWSSecretKey),
               EnvSecret("AWS_PROFILE", AWSSecretName, AWSProfile)>>
        ELSE <<>>)
    \o (IF jbsConfig.Spec.GitSourceArchive.Identity # <<>>
        THEN <<EnvSecret("GIT_DEPLOY_TOKEN", GitRepoSecretName, GitRepoSecretKey)>>
        ELSE <<>>)

createBuildScriptNoBody(build) ==
    <<"tee ", "$(workspaces.source.path)", "/build.sh <<'RHTAPEOF'\n",
      "\nRHTAPEOF\n", "chmod +x ", "$(workspaces.source.path)", "/build.sh\n">>

createBuildScript(build) ==
    <<"tee ", "$(workspaces.source.path)", "/build.sh <<'RHTAPEOF'\n">>
    \o build
    \o <<"\nRHTAPEOF\n", "chmod +x ", "$(workspaces.source.path)", "/build.sh\n">>

createKonfluxScripts(containerfile, konfluxScript) ==
    <<"mkdir -p ", "$(workspaces.source.path)", "/source/.jbs\n",
      "tee ", "$(workspaces.source.path)", "/source/.jbs/Containerfile <<'RHTAPEOF'\n">>
    \o containerfile
    \o <<"\nRHTAPEOF\n", "tee ", "$(workspaces.source.path)", "/source/.jbs/run-build.sh <<'RHTAPEOF'\n">>
    \o konfluxScript
    \o <<"\nRHTAPEOF\n", "chmod +x ", "$(workspaces.source.path)", "/source/.jbs/run-build.sh\n">>

pullPolicy(buildRequestProcessorImage) ==
    IF HasSuffix(buildRequestProcessorImage, <<":dev">>) THEN PullAlways ELSE PullIfNotPresent

orasOptionsOf(jbsConfig) ==
    IF MapGet(jbsConfig.Annotations, TestRegistry, "") = "true"
    THEN <<"--insecure --plain-http">> ELSE <<>>

RECURSIVE additionalPackagesLoop(_, _, _)
additionalPackagesLoop(downloads, count, install) ==
    IF count >= Len(downloads) THEN install
    ELSE LET i == downloads[count + 1]
             known == i.FileType \in {"tar", "executable", "rpm"}
             checked ==
                 IF i.FileType = "tar" /\ i.BinaryPath = <<>>
                 THEN <<"echo 'Binary path not specified for package ">> \o i.Uri \o <<"'; exit 1">>
                 ELSE IF i.FileType = "executable" /\ i.FileName = <<>>
                 THEN <<"echo 'File name not specified for package ">> \o i.Uri \o <<"'; exit 1">>
                 ELSE IF i.FileType = "rpm" /\ i.PackageName = <<>>
                 THEN <<"echo 'Package name not specified for rpm type'; exit 1">>
                 ELSE install
             fileName == IF i.FileName = <<>> THEN <<"package-", ToString(count)>> ELSE i.FileName
             t1 == ReplaceAll(packageTemplate, "{URI}", i.Uri)
             t2 == ReplaceAll(t1, "{FILENAME}", fileName)
             t3 == ReplaceAll(t2, "{SHA256}", i.Sha256)
             t4 == ReplaceAll(t3, "{TYPE}", T(i.FileType))
             t5 == ReplaceAll(t4, "{BINARY_PATH}", i.BinaryPath)
             t6 == ReplaceAll(t5, "{PACKAGE_NAME}", i.PackageName)
         IN  IF ~known
             THEN <<"echo 'Unknown file type ">> \o T(i.FileType) \o <<" for package ">>
                  \o i.Uri \o <<"'; exit 1">>
             ELSE additionalPackagesLoop(downloads, count + 1, checked \o t6)

additionalPackages(recipe) == additionalPackagesLoop(recipe.AdditionalDownloads, 0, <<>>)

gitScript(db, recipe) ==
    <<"echo \"Cloning ", "$(params.URL)", " and resetting to ", "$(params.HASH)", "\" && ">>
    \o (IF db.Spec.ScmInfo.Private
        THEN <<"echo \"$GIT_TOKEN\" > $HOME/.git-credentials && chmod 400 $HOME/.git-credentials && ",
               "echo '[credential]\n        helper=store\n' > $HOME/.gitconfig && ">>
        ELSE <<>>)
    \o <<"git clone ", "$(params.URL)", " ", "$(workspaces.source.path)", "/source && cd ",
         "$(workspaces.source.path)", "/source && git reset --hard ", "$(params.HASH)">>
    \o (IF ~recipe.DisableSubmodules
        THEN <<" && git submodule init && git submodule update --recursive">>
        ELSE <<>>)

gitArgs(jbsConfig, db) ==
    (IF jbsConfig.Spec.GitSourceArchive.Identity # <<>>
     THEN << <<"--git-identity=">> \o jbsConfig.Spec.GitSourceArchive.Identity >> ELSE <<>>)
    \o (IF jbsConfig.Spec.GitSourceArchive.URL # <<>>
        THEN << <<"--git-url=">> \o jbsConfig.Spec.GitSourceArchive.URL >> ELSE <<>>)
    \o (IF jbsConfig.Spec.GitSourceArchive.DisableSSLVerification
        THEN << <<"--git-disable-ssl-verification">> >> ELSE <<>>)
    \o (IF MapGet(db.Annotations, DependencyScmAnnotation, "") = "true"
        THEN << <<"--git-reuse-repository">> >> ELSE <<>>)

\* The tag suffixes "-pre-build-image" and "-artifacts", character by character.
preBuildImageSuffix ==
    <<"-", "p", "r", "e", "-", "b", "u", "i", "l", "d", "-", "i", "m", "a", "g", "e">>

artifactsSuffix == <<"-", "a", "r", "t", "i", "f", "a", "c", "t", "s">>

pipelineBuildCommands(imageId, db, jbsConfig, buildId) ==
    LET orasOptions == orasOptionsOf(jbsConfig)
        preBuildImageTag == imageId \o preBuildImageSuffix
    IN  [preBuildImageArgs |->
            <<"echo \"Creating pre-build-image archive\"\nexport ORAS_OPTIONS=\"">> \o orasOptions
            \o <<" --image-spec=v1.0 --artifact-type application/vnd.oci.image.config.v1+json\"\ncp ",
                 "$(workspaces.source.path)", "/build.sh ", "$(workspaces.source.path)",
                 "/source/.jbs\ncreate-archive --store ">>
            \o registryArgsWithDefaults(jbsConfig, preBuildImageTag)
            \o <<" ", "$(results." \o PipelineResultPreBuildImageDigest \o ".path)", "=",
                 "$(workspaces.source.path)", "/source\n">>,
         copyArtifactsArgs |->
            << <<"copy-artifacts">>,
               <<"--source-path=", "$(workspaces.source.path)", "/source">>,
               <<"--deploy-path=", "$(workspaces.source.path)", "/artifacts">> >>,
         deployArgs |->
            << <<"verify">>,
               <<"--path=", "$(workspaces.source.path)", "/artifacts">>,
               <<"--logs-path=", "$(workspaces.source.path)", "/logs">>,
               <<"--task-run-name=", "$(context.taskRun.name)">>,
               <<"--build-id=">> \o buildId,
               <<"--scm-uri=">> \o db.Spec.ScmInfo.SCMURL,
               <<"--scm-commit=">> \o db.Spec.ScmInfo.CommitHash >>,
         konfluxArgs |->
            << <<"deploy-pre-build-source">>,
               <<"--source-path=", "$(workspaces.source.path)", "/source">>,
               <<"--task-run-name=", "$(context.taskRun.name)">>,
               <<"--scm-uri=">> \o db.Spec.ScmInfo.SCMURL,
               <<"--scm-commit=">> \o db.Spec.ScmInfo.CommitHash >>
            \o gitArgs(jbsConfig, db)
            \o << <<"--image-id=">> \o imageId >>]

verifyParameters(jbsConfig, recipe) ==
    << <<"verify-built-artifacts">>,
       <<"--repository-url=", "$(params.CACHE_URL)">>,
       <<"--deploy-path=", "$(workspaces.source.path)", "/artifacts">>,
       <<"--task-run-name=", "$(context.taskRun.name)">>,
       <<"--results-file=", "$(results." \o PipelineResultPassedVerification \o ".path)">> >>
    \o (IF ~jbsConfig.Spec.RequireArtifactVerification THEN << <<"--report-only">> >> ELSE <<>>)
    \o [k \in 1..Len(recipe.AllowedDifferences) |-> <<"--excludes=">> \o recipe.AllowedDifferences[k]]

(***************************************************************************)
(* createPipelineSpec, piece by piece in the order of the source.          *)
(***************************************************************************)
Ref(kind, name) == "$(" \o kind \o "." \o name \o ")"

TaskResultRef(task, result) == "$(tasks." \o task \o ".results." \o result \o ")"

preprocessorArgsOf(tool, recipe) ==
    LET dp == [k \in 1..Len(recipe.DisabledPlugins) |-> <<"-dp ">> \o recipe.DisabledPlugins[k]]
        src == <<"$(workspaces." \o WorkspaceSource \o ".path)", "/source">>
        prepare == CASE tool = "gradle" -> "gradle-prepare"
                     [] tool = "sbt" -> "sbt-prepare"
                     [] tool = "ant" -> "ant-prepare"
                     [] OTHER -> "maven-prepare"
    IN  << <<prepare>>, src >> \o dp

javaHomeOf(recipe) ==
    IF Flat(recipe.JavaVersion) = "7" \/ Flat(recipe.JavaVersion) = "8"
    THEN <<"/lib/jvm/java-1.">> \o recipe.JavaVersion \o <<".0">>
    ELSE <<"/lib/jvm/java-">> \o recipe.JavaVersion

toolEnvOf(recipe, db) ==
    LET tv(name) == MapGet(recipe.ToolVersions, name, <<>>)
    IN  (IF tv("maven") # <<>> THEN <<EnvValue("MAVEN_HOME", <<"/opt/maven/">> \o tv("maven"))>> ELSE <<>>)
        \o (IF tv("gradle") # <<>> THEN <<EnvValue("GRADLE_HOME", <<"/opt/gradle/">> \o tv("gradle"))>> ELSE <<>>)
        \o (IF tv("ant") # <<>> THEN <<EnvValue("ANT_HOME", <<"/opt/ant/">> \o tv("ant"))>> ELSE <<>>)
        \o (IF tv("sbt") # <<>> THEN <<EnvValue("SBT_DIST", <<"/opt/sbt/">> \o tv("sbt"))>> ELSE <<>>)
        \o <<EnvValue(PipelineParamToolVersion, recipe.ToolVersion),
             EnvValue(PipelineParamProjectVersion, db.Spec.Version),
             EnvValue(JavaHome, javaHomeOf(recipe)),
             EnvValue(PipelineParamEnforceVersion, recipe.EnforceVersion)>>

buildToolSectionDefaultMaven(tool) ==
    CASE tool = "gradle" -> mavenSettings \o <<"\n">> \o gradleBuild
      [] tool = "sbt" -> sbtBuild
      [] tool = "ant" -> mavenSettings \o <<"\n">> \o antBuild
      [] OTHER -> mavenSettings \o <<"\n">> \o mavenBuild

buildToolSectionOf(tool) ==
    CASE tool = "maven" -> mavenSettings \o <<"\n">> \o mavenBuild
      [] tool = "gradle" -> mavenSettings \o <<"\n">> \o gradleBuild
      [] tool = "sbt" -> sbtBuild
      [] tool = "ant" -> mavenSettings \o <<"\n">> \o antBuild
      [] OTHER -> <<"echo unknown build tool ">> \o T(tool) \o <<" && exit 1">>

buildReposOf(recipe) ==
    IF Len(recipe.Repositories) > 0
    THEN <<"-">> \o Join(recipe.Repositories, ",")
    ELSE <<>>

assembleBuild(buildToolSection, install, recipe) ==
    LET b0 == InstallKeystoreScript \o <<"\n">> \o buildEntryScript
        b1 == ReplaceAll(b0, "{{BUILD}}", buildToolSection)
        b2 == ReplaceAll(b1, "{{INSTALL_PACKAGE_SCRIPT}}", install)
        b3 == ReplaceAll(b2, "{{PRE_BUILD_SCRIPT}}", recipe.PreBuildScript)
    IN  ReplaceAll(b3, "{{POST_BUILD_SCRIPT}}", recipe.PostBuildScript)

cacheUrlOf(jbsConfig, buildRepos, commitTime) ==
    (IF jbsConfig.Spec.CacheSettings.DisableTLS
     THEN <<"http://jvm-build-workspace-artifact-cache.">> \o jbsConfig.Namespace
          \o <<".svc.cluster.local/v2/cache/rebuild">>
     ELSE <<"https://jvm-build-workspace-artifact-cache-tls.">> \o jbsConfig.Namespace
          \o <<".svc.cluster.local/v2/cache/rebuild">>)
    \o buildRepos \o <<"/", FormatInt(commitTime)>>

konfluxScriptOf(envVars, cmdArgs, buildScript) ==
    <<"#!/bin/sh\n">> \o envVars \o <<"\nset -- \"$@\" ">> \o cmdArgs \o <<"\n\n">> \o buildScript

startCacheScript ==
    <<"#!/bin/sh\n/var/workdir/software/system-java/bin/java -Dbuild-policy.default.store-list=rebuilt,central,jboss,redhat -Dkube.disabled=true -Dquarkus.kubernetes-client.trust-certs=true -jar /var/workdir/software/cache/quarkus-run.jar >/var/workdir/cache.log &",
      "\nwhile ! cat /var/workdir/cache.log | grep 'Listening on:'; do\n        echo \"Waiting for Cache to start\"\n        sleep 1\ndone \n">>

diagnosticContainerfileWrongScript(buildRequestProcessorImage, recipe, cacheUrlEnv, gitScriptText, preprocessorScript, buildScript, envVars, cmdArgs) ==
    <<"FROM ">> \o buildRequestProcessorImage \o <<" AS build-request-processor">>
    \o <<"\nFROM ">>
    \o ReplaceAll(buildRequestProcessorImage, "hacbs-jvm-build-request-processor", <<"hacbs-jvm-cache">>)
    \o <<" AS cache">>
    \o <<"\nFROM ">> \o recipe.Image
    \o <<"\nUSER 0", "\nWORKDIR /var/workdir", "\nENV CACHE_URL=">> \o cacheUrlEnv
    \o <<"\nRUN mkdir -p /var/workdir/software/settings /original-content/marker",
         "\nCOPY --from=build-request-processor /deployments/ /var/workdir/software/build-request-processor",
         "\nCOPY --from=build-request-processor /lib/jvm/jre-17 /var/workdir/software/system-java",
         "\nCOPY --from=build-request-processor /etc/java/java-17-openjdk /etc/java/java-17-openjdk",
         "\nCOPY --from=cache /deployments/ /var/workdir/software/cache",
         "\nRUN ">> \o gitScriptText
    \o <<"\nRUN echo ">> \o EncodeToString(startCacheScript) \o <<" | base64 -d >/var/workdir/start-cache.sh">>
    \o <<"\nRUN echo ">> \o EncodeToString(preprocessorScript) \o <<" | base64 -d >/var/workdir/preprocessor.sh">>
    \o <<"\nRUN echo ">> \o EncodeToString(preprocessorScript) \o <<" | base64 -d >/var/workdir/build.sh">>
    \o <<"\nRUN echo ">>
    \o EncodeToString(<<"#!/bin/sh\n/var/workdir/preprocessor.sh\n">> \o envVars
                      \o <<"\n/var/workdir/build.sh ">> \o cmdArgs \o <<"\n">>)
    \o <<" | base64 -d >/var/workdir/run-full-build.sh">>
    \o <<"\nRUN echo ">> \o EncodeToString(dockerfileEntryScript) \o <<" | base64 -d >/var/workdir/entry-script.sh">>
    \o <<"\nRUN chmod +x /var/workdir/*.sh",
         "\nCMD [ \"/bin/bash\", \"/var/workdir/entry-script.sh\" ]">>

diagnosticContainerfile(buildRequestProcessorImage, recipe, cacheUrlEnv, gitScriptText, preprocessorScript, buildScript, envVars, cmdArgs) ==
    <<"FROM ">> \o buildRequestProcessorImage \o <<" AS build-request-processor">>
    \o <<"\nFROM ">>
    \o ReplaceAll(buildRequestProcessorImage, "hacbs-jvm-build-request-processor", <<"hacbs-jvm-cache">>)
    \o <<" AS cache">>
    \o <<"\nFROM ">> \o recipe.Image
    \o <<"\nUSER 0", "\nWORKDIR /var/workdir", "\nENV CACHE_URL=">> \o cacheUrlEnv
    \o <<"\nRUN mkdir -p /var/workdir/software/settings /original-content/marker",
         "\nCOPY --from=build-request-processor /deployments/ /var/workdir/software/build-request-processor",
         "\nCOPY --from=build-request-processor /lib/jvm/jre-17 /var/workdir/software/system-java",
         "\nCOPY --from=build-request-processor /etc/java/java-17-openjdk /etc/java/java-17-openjdk",
         "\nCOPY --from=cache /deployments/ /var/workdir/software/cache",
         "\nRUN ">> \o gitScriptText
    \o <<"\nRUN echo ">> \o EncodeToString(startCacheScript) \o <<" | base64 -d >/var/workdir/start-cache.sh">>
    \o <<"\nRUN echo ">> \o EncodeToString(preprocessorScript) \o <<" | base64 -d >/var/workdir/preprocessor.sh">>
    \o <<"\nRUN echo ">> \o EncodeToString(buildScript) \o <<" | base64 -d >/var/workdir/build.sh">>
    \o <<"\nRUN echo ">>
    \o EncodeToString(<<"#!/bin/sh\n/var/workdir/preprocessor.sh\n">> \o envVars
                      \o <<"\n/var/workdir/build.sh ">> \o cmdArgs \o <<"\n">>)
    \o <<" | base64 -d >/var/workdir/run-full-build.sh">>
    \o <<"\nRUN echo ">> \o EncodeToString(dockerfileEntryScript) \o <<" | base64 -d >/var/workdir/entry-script.sh">>
    \o <<"\nRUN chmod +x /var/workdir/*.sh",
         "\nCMD [ \"/bin/bash\", \"/var/workdir/entry-script.sh\" ]">>

konfluxContainerfileNoAntStage(tool, recipe, buildRequestProcessorImage, copyArtifactsText) ==
    <<"FROM ">> \o recipe.Image
    \o <<"\nUSER 0", "\nWORKDIR /var/workdir", "\nCOPY .jbs/run-build.sh /var/workdir",
         "\nCOPY . /var/workdir/workspace/source/", "\nRUN /var/workdir/run-build.sh",
         "\nFROM scratch", "\nCOPY --from=0 /var/workdir/workspace/artifacts /">>

konfluxContainerfile(tool, recipe, buildRequestProcessorImage, copyArtifactsText) ==
    <<"FROM ">> \o recipe.Image
    \o <<"\nUSER 0", "\nWORKDIR /var/workdir",
         "\nRUN mkdir -p /var/workdir/software/settings /original-content/marker",
         "\nARG CACHE_URL=\"\"", "\nENV CACHE_URL=$CACHE_URL",
         "\nCOPY .jbs/run-build.sh /var/workdir",
         "\nCOPY . /var/workdir/workspace/source/",
         "\nRUN /var/workdir/run-build.sh">>
    \o (IF tool = "ant"
        THEN <<"\nFROM ">> \o buildRequestProcessorImage \o <<" AS build-request-processor">>
             \o <<"\nUSER 0", "\nWORKDIR /var/workdir",
                  "\nCOPY --from=0 /var/workdir/ /var/workdir/",
                  "\nRUN /opt/jboss/container/java/run/run-java.sh ">> \o copyArtifactsText
             \o <<"\nFROM scratch", "\nCOPY --from=1 /var/workdir/workspace/artifacts /">>
        ELSE <<"\nFROM scratch", "\nCOPY --from=0 /var/workdir/workspace/artifacts /">>)

(***************************************************************************)
(* The task graph.                                                         *)
(***************************************************************************)
NilPipelineSpec == [nil |-> TRUE]

ParamSpec(name, type) == [Name |-> name, Type |-> type, HasDefault |-> FALSE, Default |-> <<>>]

ParamSpecDefault(name, type, def) == [Name |-> name, Type |-> type, HasDefault |-> TRUE, Default |-> def]

NoResources ==
    [Set |-> FALSE, Requests |-> [memory |-> 0, cpu |-> 0], Limits |-> [memory |-> 0, cpu |-> 0]]

Resources(requestMemory, requestCPU, limitMemory, limitCPU) ==
    [Set |-> TRUE, Requests |-> [memory |-> requestMemory, cpu |-> requestCPU],
     Limits |-> [memory |-> limitMemory, cpu |-> limitCPU]]

Step(name, image, policy, script, env, resources) ==
    [Name |-> name, Image |-> image, ImagePullPolicy |-> policy, Script |-> script,
     Env |-> env, ComputeResources |-> resources, Args |-> <<>>, WorkingDir |-> <<>>,
     Timeout |-> NoTimeout, RunAsUser |-> 0]

NoTaskSpec == [Workspaces |-> <<>>, Params |-> <<>>, Results |-> <<>>, Steps |-> <<>>]

NoTaskRef == [Resolver |-> "", Params |-> <<>>]

WorkspaceDecls ==
    <<[Name |-> WorkspaceBuildSettings, MountPath |-> ""],
      [Name |-> WorkspaceSource, MountPath |-> WorkspaceMount],
      [Name |-> WorkspaceTls, MountPath |-> ""]>>

WorkspaceBindings ==
    <<[Name |-> WorkspaceBuildSettings, Workspace |-> WorkspaceBuildSettings],
      [Name |-> WorkspaceSource, Workspace |-> WorkspaceSource],
      [Name |-> WorkspaceTls, Workspace |-> WorkspaceTls]>>

pipelineParamsOf(cacheUrl) ==
    <<ParamSpec(PipelineBuildId, ParamTypeString),
      ParamSpec(PipelineParamScmUrl, ParamTypeString),
      ParamSpec(PipelineParamScmTag, ParamTypeString),
      ParamSpec(PipelineParamScmHash, ParamTypeString),
      ParamSpec(PipelineParamChainsGitUrl, ParamTypeString),
      ParamSpec(PipelineParamChainsGitCommit, ParamTypeString),
      ParamSpec(PipelineParamGoals, ParamTypeArray),
      ParamSpec(PipelineParamJavaVersion, ParamTypeString),
      ParamSpec(PipelineParamToolVersion, ParamTypeString),
      ParamSpec(PipelineParamPath, ParamTypeString),
      ParamSpec(PipelineParamEnforceVersion, ParamTypeString),
      ParamSpec(PipelineParamProjectVersion, ParamTypeString),
      ParamSpecDefault(PipelineParamCacheUrl, ParamTypeString, cacheUrl)>>

\* existingImages[recipe.Image+"-"+recipe.Tool]
existingImageKey(recipe) == Flat(recipe.Image) \o "-" \o recipe.Tool

preBuildImageRequiredAlways(existingImages, recipe) == TRUE

preBuildImageRequiredKeyAbsent(existingImages, recipe) ==
    existingImageKey(recipe) \notin DOMAIN existingImages

preBuildImageRequiredOf(existingImages, recipe) ==
    MapGet(existingImages, existingImageKey(recipe), <<>>) = <<>>

preBuildImageLookupOnly(existingImages, recipe) ==
    MapGet(existingImages, existingImageKey(recipe), <<>>)

preBuildImageOf(existingImages, recipe) ==
    IF preBuildImageRequiredOf(existingImages, recipe)
    THEN <<TaskResultRef(PreBuildTaskName, PipelineResultPreBuildImageDigest)>>
    ELSE MapGet(existingImages, existingImageKey(recipe), <<>>)

runAfterOfNothing(existingImages, recipe) == <<>>

runAfterOf(existingImages, recipe) ==
    IF preBuildImageRequiredOf(existingImages, recipe) THEN <<PreBuildTaskName>> ELSE <<>>

runAfterBuildOfNoBuild(runAfter) == runAfter

runAfterBuildOf(runAfter) == Append(runAfter, BuildTaskName)

preBuildTaskSpec(recipe, buildRequestProcessorImage, limits, pipelineParams, secretVars, gitScriptText, build, preprocessorArgs, kf, konfluxScript, konfluxArgs, preBuildImageArgs) ==
    [Workspaces |-> WorkspaceDecls,
     Params |-> pipelineParams,
     Results |-> <<[Name |-> PipelineResultPreBuildImageDigest, Type |-> "string"],
                   [Name |-> PipelineResultGitArchive, Type |-> "string"]>>,
     Steps |->
       <<Step("git-clone-and-settings", recipe.Image, "",
              gitScriptText \o <<"\n">> \o createBuildScript(build),
              <<EnvValue(PipelineParamCacheUrl, <<Ref("params", PipelineParamCacheUrl)>>),
                EnvSecret("GIT_TOKEN", GitSecretName, GitSecretTokenKey)>>,
              Resources(limits.defaultRequestMemory, limits.defaultRequestCPU,
                        limits.defaultRequestMemory, limits.defaultLimitCPU)),
         Step("preprocessor", buildRequestProcessorImage, pullPolicy(buildRequestProcessorImage),
              InstallKeystoreIntoBuildRequestProcessor(<<preprocessorArgs>>),
              <<EnvValue(PipelineParamCacheUrl, <<Ref("params", PipelineParamCacheUrl)>>)>>,
              Resources(limits.defaultRequestMemory, limits.defaultRequestCPU,
                        limits.defaultRequestMemory, limits.defaultLimitCPU)),
         Step("create-pre-build-source", buildRequestProcessorImage,
              pullPolicy(buildRequestProcessorImage),
              createKonfluxScripts(kf, konfluxScript) \o <<"\n">>
                  \o InstallKeystoreIntoBuildRequestProcessor(<<konfluxArgs>>),
              secretVars,
              Resources(limits.defaultBuildRequestMemory, limits.defaultRequestCPU,
                        limits.defaultBuildRequestMemory, limits.defaultLimitCPU)),
         Step("create-pre-build-image", buildTrustedArtifactsImage, PullIfNotPresent,
              preBuildImageArgs, secretVars,
              Resources(limits.defaultBuildRequestMemory, limits.defaultRequestCPU,
                        limits.defaultBuildRequestMemory, limits.defaultLimitCPU))>>]

preBuildPipelineTaskTimed(taskSpec) ==
    [Name |-> PreBuildTaskName, RunAfter |-> <<>>, Embedded |-> TRUE, TaskSpec |-> taskSpec,
     TaskRef |-> NoTaskRef, Timeout |-> DefaultTimeout, Params |-> <<>>,
     Workspaces |-> WorkspaceBindings]

preBuildPipelineTask(taskSpec) ==
    [Name |-> PreBuildTaskName, RunAfter |-> <<>>, Embedded |-> TRUE, TaskSpec |-> taskSpec,
     TaskRef |-> NoTaskRef, Timeout |-> NoTimeout, Params |-> <<>>,
     Workspaces |-> WorkspaceBindings]

containerBuildPipelineTask(jbsConfig, buildId, runAfter, preBuildImage) ==
    [Name |-> BuildTaskName, RunAfter |-> runAfter, Embedded |-> FALSE, TaskSpec |-> NoTaskSpec,
     TaskRef |-> [Resolver |-> "http",
                  Params |-> <<StringParam("url", KonfluxBuildDefinitions)>>],
     Timeout |-> DefaultTimeout,
     Params |-> <<StringParam("DOCKERFILE", <<".jbs/Containerfile">>),
                  StringParam("IMAGE", registryArgsWithDefaults(jbsConfig, buildId)),
                  StringParam("SOURCE_ARTIFACT", preBuildImage),
                  StringParam("ORAS_OPTIONS", orasOptionsOf(jbsConfig)),
                  StringParam("TLSVERIFY",
                              IF orasOptionsOf(jbsConfig) # <<>> THEN <<"false">> ELSE <<"true">>)>>,
     Workspaces |-> <<>>]

buildTaskSpec(jbsConfig, recipe, buildRequestProcessorImage, buildId, limits, pipelineParams, secretVars, toolEnv, copyArtifactsArgs) ==
    [Workspaces |-> WorkspaceDecls,
     Params |-> Append(pipelineParams, ParamSpec(PipelineResultPreBuildImageDigest, ParamTypeString)),
     Results |-> <<[Name |-> PipelineResultImage, Type |-> ""],
                   [Name |-> PipelineResultImageDigest, Type |-> ""]>>,
     Steps |->
       <<Step("restore-pre-build-source", buildTrustedArtifactsImage, PullIfNotPresent,
              <<"echo \"Restoring source to workspace : ", "$(workspaces.source.path)",
                "\"\nexport ORAS_OPTIONS=\"">> \o orasOptionsOf(jbsConfig)
              \o <<"\"\nuse-archive ", Ref("params", PipelineResultPreBuildImageDigest), "=",
                   "$(workspaces.source.path)", "/source\nmv ", "$(workspaces.source.path)",
                   "/source/.jbs/build.sh ", "$(workspaces.source.path)">>,
              secretVars, NoResources),
         [Step("build", recipe.Image, pullPolicy(buildRequestProcessorImage),
               <<"$(workspaces." \o WorkspaceSource \o ".path)", "/build.sh \"$@\"">>,
               Append(toolEnv, EnvValue(PipelineParamCacheUrl, <<Ref("params", PipelineParamCacheUrl)>>)),
               Resources(limits.buildRequestMemory, limits.buildRequestCPU,
                         limits.buildRequestMemory, limits.buildLimitCPU))
            EXCEPT !.Timeout = DefaultTimeout,
                   !.Args = << <<"$(params.GOALS[*])">> >>,
                   !.WorkingDir = <<"$(workspaces." \o WorkspaceSource \o ".path)", "/source">>],
         Step("deploy-ant-artifacts", buildRequestProcessorImage,
              pullPolicy(buildRequestProcessorImage),
              InstallKeystoreIntoBuildRequestProcessor(<<copyArtifactsArgs>>),
              secretVars,
              Resources(limits.defaultBuildRequestMemory, limits.defaultRequestCPU,
                        limits.defaultBuildRequestMemory, limits.defaultLimitCPU)),
         Step("store-post-build-artifacts", buildTrustedArtifactsImage, PullIfNotPresent,
              <<"echo \"Creating post-build-image archive\"\nexport ORAS_OPTIONS=\"">>
              \o orasOptionsOf(jbsConfig)
              \o <<" --image-spec=v1.0 --artifact-type application/vnd.oci.image.config.v1+json --no-tty --format=json\"\nIMGURL=">>
              \o registryArgsWithDefaults(jbsConfig, buildId \o artifactsSuffix)
              \o <<"\ncreate-archive --store $IMGURL /tmp/artifacts=", "$(workspaces.source.path)",
                   "/artifacts | tee /tmp/oras-create.json\nIMGDIGEST=$(cat /tmp/oras-create.json | grep -Ev '(Prepared artifact|Artifacts created)' | jq -r '.digest')\necho \"Storing IMGURL $IMGURL and IMGDIGEST $IMGDIGEST\"\necho -n \"$IMGURL\" >> ",
                   "$(results." \o PipelineResultImage \o ".path)",
                   "\necho -n \"$IMGDIGEST\" >> ",
                   "$(results." \o PipelineResultImageDigest \o ".path)", "\n">>,
              secretVars, NoResources)>>]

buildPipelineTask(taskSpec, runAfter, preBuildImage) ==
    [Name |-> BuildTaskName, RunAfter |-> runAfter, Embedded |-> TRUE, TaskSpec |-> taskSpec,
     TaskRef |-> NoTaskRef, Timeout |-> DefaultTimeout,
     Params |-> <<StringParam(PipelineResultPreBuildImageDigest, preBuildImage)>>,
     Workspaces |-> WorkspaceBindings]

postBuildTaskSpec(jbsConfig, buildRequestProcessorImage, limits, pipelineParams, secretVars, verifyBuiltArtifactsArgs, deployArgs) ==
    [Workspaces |-> WorkspaceDecls,
     Params |-> Append(pipelineParams, ParamSpec(PipelineResultPreBuildImageDigest, ParamTypeString)),
     Results |-> <<[Name |-> PipelineResultContaminants, Type |-> ""],
                   [Name |-> PipelineResultDeployedResources, Type |-> ""],
                   [Name |-> PipelineResultPassedVerification, Type |-> ""],
                   [Name |-> PipelineResultVerificationResult, Type |-> ""]>>,
     Steps |->
       <<Step("restore-post-build-artifacts", buildTrustedArtifactsImage, PullIfNotPresent,
              <<"echo \"Restoring artifacts to workspace : ", "$(workspaces.source.path)",
                "\"\nexport ORAS_OPTIONS=\"">> \o orasOptionsOf(jbsConfig)
              \o <<"\"\nURL=">> \o registryArgsWithDefaults(jbsConfig, <<>>)
              \o <<"\nDIGEST=", "$(tasks." \o BuildTaskName \o ".results.IMAGE_DIGEST)",
                   "\nAARCHIVE=$(oras manifest fetch $ORAS_OPTIONS $URL@$DIGEST | jq --raw-output '.layers[0].digest')\necho \"URL $URL DIGEST $DIGEST AARCHIVE $AARCHIVE\"\nuse-archive oci:$URL@$AARCHIVE=",
                   "$(workspaces.source.path)", "/artifacts">>,
              secretVars, NoResources),
         Step("verify-and-check-for-contaminates", buildRequestProcessorImage,
              pullPolicy(buildRequestProcessorImage),
              InstallKeystoreIntoBuildRequestProcessor(<<verifyBuiltArtifactsArgs, deployArgs>>),
              secretVars,
              Resources(limits.defaultBuildRequestMemory, limits.defaultRequestCPU,
                        limits.defaultBuildRequestMemory, limits.defaultLimitCPU))>>]

postBuildPipelineTask(taskSpec, runAfterBuild, preBuildImage) ==
    [Name |-> PostBuildTaskName, RunAfter |-> runAfterBuild, Embedded |-> TRUE,
     TaskSpec |-> taskSpec, TaskRef |-> NoTaskRef, Timeout |-> DefaultTimeout,
     Params |-> <<StringParam(PipelineResultPreBuildImageDigest, preBuildImage)>>,
     Workspaces |-> WorkspaceBindings]

PipelineResult(task, name) ==
    [Name |-> name, Value |-> <<TaskResultRef(task, name)>>]

\* Results re-exposed under the build task's name, whatever the task.
taskResultsOfBuildTask(task, results) ==
    [k \in 1..Len(results) |-> PipelineResult(BuildTaskName, results[k].Name)]

taskResultsOf(task, results) ==
    [k \in 1..Len(results) |-> PipelineResult(task, results[k].Name)]

\* The Go indices of ps.Tasks that the parameter fan-out appends to.
fanOutTargetsFirstTwo(preBuildImageRequired) == <<0, 1>>

fanOutTargets(preBuildImageRequired) ==
    IF preBuildImageRequired THEN <<0, 1, 2>> ELSE <<0, 1>>

fanOutValues(pipelineParams) ==
    [k \in 1..Len(pipelineParams) |->
        IF pipelineParams[k].Type = ParamTypeString
        THEN StringParam(pipelineParams[k].Name, <<Ref("params", pipelineParams[k].Name)>>)
        ELSE ArrayParam(pipelineParams[k].Name,
                        << <<"$(params." \o pipelineParams[k].Name \o "[*])">> >>)]

fanOut(tasks, pipelineParams, preBuildImageRequired) ==
    LET targets == fanOutTargets(preBuildImageRequired)
    IN  [t \in 1..Len(tasks) |->
            IF \E k \in 1..Len(targets) : targets[k] = t - 1
            THEN [tasks[t] EXCEPT !.Params = @ \o fanOutValues(pipelineParams)]
            ELSE tasks[t]]

createPipelineSpec(tool, commitTime, jbsConfig, systemConfig, recipe, db, paramValues, buildRequestProcessorImage, buildId, existingImages) ==
    LET imageId == db.Name
        verifyBuiltArtifactsArgs == verifyParameters(jbsConfig, recipe)
        cmds == pipelineBuildCommands(imageId, db, jbsConfig, buildId)
        gitScriptText == gitScript(db, recipe)
        install == additionalPackages(recipe)
        preprocessorArgs == preprocessorArgsOf(tool, recipe)
        toolEnv == toolEnvOf(recipe, db)
        additionalMemory == cappedAdditionalMemory(recipe, systemConfig)
        buildToolSection == buildToolSectionOf(tool)
        buildRepos == buildReposOf(recipe)
        build == assembleBuild(buildToolSection, install, recipe)
        cacheUrl == cacheUrlOf(jbsConfig, buildRepos, commitTime)
        preprocessorScript ==
            <<"#!/bin/sh\n/var/workdir/software/system-java/bin/java -jar /var/workdir/software/build-request-processor/quarkus-run.jar ">>
            \o doSubstitution(Join(preprocessorArgs, " "), paramValues, commitTime, buildRepos)
            \o <<"\n">>
        buildScript == doSubstitution(build, paramValues, commitTime, buildRepos)
        envVars == extractEnvVar(toolEnv)
        cmdArgs == extractArrayParam(PipelineParamGoals, paramValues)
        konfluxScript == konfluxScriptOf(envVars, cmdArgs, buildScript)
        df == diagnosticContainerfile(
                  buildRequestProcessorImage, recipe,
                  doSubstitution(<<Ref("params", PipelineParamCacheUrl)>>, paramValues, commitTime, buildRepos),
                  doSubstitution(gitScriptText, paramValues, commitTime, buildRepos),
                  preprocessorScript, buildScript, envVars, cmdArgs)
        kf == konfluxContainerfile(
                  tool, recipe, buildRequestProcessorImage,
                  doSubstitution(Join(cmds.copyArtifactsArgs, " "), <<>>, commitTime, buildRepos))
        lim == memoryLimits(jbsConfig, additionalMemory)
        limits == lim.limits
        pipelineParams == pipelineParamsOf(cacheUrl)
        secretVars == secretVariables(jbsConfig)
        preBuildImageRequired == preBuildImageRequiredOf(existingImages, recipe)
        preBuildImage == preBuildImageOf(existingImages, recipe)
        runAfter == runAfterOf(existingImages, recipe)
        runAfterBuild == runAfterBuildOf(runAfter)
        buildSetup == preBuildTaskSpec(recipe, buildRequestProcessorImage, limits, pipelineParams,
                                       secretVars, gitScriptText, build, preprocessorArgs, kf,
                                       konfluxScript, cmds.konfluxArgs, cmds.preBuildImageArgs)
        tasks1 == IF preBuildImageRequired THEN <<preBuildPipelineTask(buildSetup)>> ELSE <<>>
        results1 == IF preBuildImageRequired
                    THEN taskResultsOf(PreBuildTaskName, buildSetup.Results) ELSE <<>>
        buildTask == buildTaskSpec(jbsConfig, recipe, buildRequestProcessorImage, buildId, limits,
                                   pipelineParams, secretVars, toolEnv, cmds.copyArtifactsArgs)
        tasks2 == IF jbsConfig.Spec.ContainerBuilds
                  THEN <<containerBuildPipelineTask(jbsConfig, buildId, runAfter, preBuildImage)>> \o tasks1
                  ELSE <<buildPipelineTask(buildTask, runAfter, preBuildImage)>> \o tasks1
        results2 == IF jbsConfig.Spec.ContainerBuilds
                    THEN results1 \o <<PipelineResult(BuildTaskName, PipelineResultImage),
                                       PipelineResult(BuildTaskName, PipelineResultImageDigest)>>
                    ELSE results1 \o taskResultsOf(BuildTaskName, buildTask.Results)
        postBuildTask == postBuildTaskSpec(jbsConfig, buildRequestProcessorImage, limits,
                                           pipelineParams, secretVars, verifyBuiltArtifactsArgs,
                                           cmds.deployArgs)
        tasks3 == <<postBuildPipelineTask(postBuildTask, runAfterBuild, preBuildImage)>> \o tasks2
        results3 == results2 \o taskResultsOf(PostBuildTaskName, postBuildTask.Results)
        targets == fanOutTargets(preBuildImageRequired)
        ps == [Workspaces |-> <<WorkspaceBuildSettings, WorkspaceSource, WorkspaceTls>>,
               Params |-> pipelineParams,
               Tasks |-> fanOut(tasks3, pipelineParams, preBuildImageRequired),
               Results |-> results3]
    IN  IF lim.err # "nil"
        THEN [ps |-> NilPipelineSpec, df |-> <<>>, kf |-> <<>>, konfluxScript |-> <<>>, err |-> lim.err]
        ELSE IF \E k \in 1..Len(targets) : targets[k] >= Len(tasks3)
        THEN [ps |-> NilPipelineSpec, df |-> <<>>, kf |-> <<>>, konfluxScript |-> <<>>,
              err |-> "panic: index out of range"]
        ELSE [ps |-> ps, df |-> df, kf |-> kf, konfluxScript |-> konfluxScript, err |-> "nil"]

(***************************************************************************)
(* createDeployPipelineSpec: the graph of the one tag task.                *)
(***************************************************************************)
pipelineDeployCommands(jbsConfig) ==
    << <<"deploy">>, <<"--directory=", "$(workspaces.source.path)", "/artifacts">> >>
    \o (IF jbsConfig.Spec.MavenDeployment.Repository # <<>>
        THEN << <<"--mvn-repo=">> \o jbsConfig.Spec.MavenDeployment.Repository >> ELSE <<>>)
    \o (IF jbsConfig.Spec.MavenDeployment.Username # <<>>
        THEN << <<"--mvn-username=">> \o jbsConfig.Spec.MavenDeployment.Username >> ELSE <<>>)

createDeployPipelineSpec(jbsConfig, buildRequestProcessorImage, gavs) ==
    LET mavenDeployArgs == pipelineDeployCommands(jbsConfig)
        lim == memoryLimits(jbsConfig, 0)
        limits == lim.limits
        orasOptions == orasOptionsOf(jbsConfig)
        secretVars == secretVariables(jbsConfig)
        regUrl == registryArgsWithDefaults(jbsConfig, <<>>)
        tagTask ==
            [Workspaces |-> <<[Name |-> WorkspaceTls, MountPath |-> ""],
                              [Name |-> WorkspaceSource, MountPath |-> WorkspaceMount]>>,
             Params |-> <<ParamSpec(PipelineResultPreBuildImageDigest, ParamTypeString),
                          ParamSpec(PipelineResultImageDigest, ParamTypeString),
                          ParamSpec(PipelineResultImage, ParamTypeString)>>,
             Results |-> <<>>,
             Steps |->
               <<Step("restore-post-build-artifacts", buildTrustedArtifactsImage, PullIfNotPresent,
                      <<"echo \"Restoring artifacts and source to workspace\"\nexport ORAS_OPTIONS=\"">>
                      \o orasOptions
                      \o <<"\"\nuse-archive ", Ref("params", PipelineResultPreBuildImageDigest), "=",
                           "$(workspaces.source.path)", "/source\nmv ", "$(workspaces.source.path)",
                           "/source/.jbs/build.sh ", "$(workspaces.source.path)",
                           "\nURL=", Ref("params", PipelineResultImage),
                           "\nDIGEST=", Ref("params", PipelineResultImageDigest),
                           "\nAARCHIVE=$(oras manifest fetch $ORAS_OPTIONS $URL@$DIGEST | jq --raw-output '.layers[0].digest')\necho \"URL $URL DIGEST $DIGEST AARCHIVE $AARCHIVE\"\nuse-archive oci:$URL@$AARCHIVE=",
                           "$(workspaces.source.path)", "/artifacts">>,
                      secretVars, NoResources),
                 Step("maven-deployment", buildRequestProcessorImage,
                      pullPolicy(buildRequestProcessorImage),
                      InstallKeystoreIntoBuildRequestProcessor(<<mavenDeployArgs>>),
                      secretVars,
                      Resources(limits.defaultBuildRequestMemory, limits.defaultRequestCPU,
                                limits.defaultBuildRequestMemory, limits.defaultLimitCPU)),
                 Step("oras-tag", buildTrustedArtifactsImage, PullIfNotPresent,
                      <<"GAVS=">> \o gavs \o <<"\necho \"Tagging for GAVs ($GAVS)\"\noras tag ">>
                      \o orasOptions \o <<" --verbose ">> \o regUrl
                      \o <<"@", Ref("params", PipelineResultImageDigest), " ${GAVS//,/ }">>,
                      secretVars, NoResources)>>]
        ps == [Workspaces |-> <<WorkspaceSource, WorkspaceTls>>,
               Params |-> <<ParamSpec(PipelineResultImageDigest, ParamTypeString)>>,
               Tasks |->
                 <<[Name |-> TagTaskName, RunAfter |-> <<>>, Embedded |-> TRUE,
                    TaskSpec |-> tagTask, TaskRef |-> NoTaskRef, Timeout |-> NoTimeout,
                    Params |->
                      <<StringParam(PipelineResultImage, <<Ref("params", PipelineResultImage)>>),
                        StringParam(PipelineResultImageDigest,
                                    <<Ref("params", PipelineResultImageDigest)>>),
                        StringParam(PipelineResultPreBuildImageDigest,
                                    <<Ref("params", PipelineResultPreBuildImageDigest)>>)>>,
                    Workspaces |-> <<[Name |-> WorkspaceTls, Workspace |-> WorkspaceTls],
                                     [Name |-> WorkspaceSource, Workspace |-> WorkspaceSource]>>]>>,
               Results |-> <<>>]
    IN  IF lim.err # "nil"
        THEN [ps |-> NilPipelineSpec, err |-> lim.err]
        ELSE [ps |-> ps, err |-> "nil"]

(***************************************************************************)
(* Input values.  The zero value of every optional field is the empty text *)
(* (or FALSE), as in the Go structs.                                       *)
(***************************************************************************)
DefaultBuildSettings ==
    [TaskRequestMemory |-> <<>>, BuildRequestMemory |-> <<>>,
     TaskRequestCPU |-> <<>>, TaskLimitCPU |-> <<>>,
     BuildRequestCPU |-> <<>>, BuildLimitCPU |-> <<>>]

DefaultRegistry ==
    [Host |-> <<>>, Port |-> <<>>, Owner |-> <<>>, Repository |-> <<>>,
     PrependTag |-> <<>>, SecretName |-> <<>>]

DefaultJBSConfig ==
    [Namespace |-> <<"ns">>,
     Annotations |-> <<>>,
     Spec |-> [Registry |-> DefaultRegistry,
               CacheSettings |-> [DisableTLS |-> FALSE],
               MavenDeployment |-> [Repository |-> <<>>, Username |-> <<>>],
               GitSourceArchive |-> [Identity |-> <<>>, URL |-> <<>>,
                                     DisableSSLVerification |-> FALSE],
               ContainerBuilds |-> FALSE,
               RequireArtifactVerification |-> FALSE,
               BuildSettings |-> DefaultBuildSettings]]

DefaultRecipe ==
    [Tool |-> "maven",
     Image |-> <<"quay.io/builder", ":1">>,
     JavaVersion |-> <<"17">>,
     ToolVersion |-> <<"3.9.5">>,
     ToolVersions |-> ("maven" :> <<"3.9.5">>),
     EnforceVersion |-> <<>>,
     DisabledPlugins |-> <<>>,
     Repositories |-> <<>>,
     PreBuildScript |-> <<>>,
     PostBuildScript |-> <<>>,
     AdditionalDownloads |-> <<>>,
     AllowedDifferences |-> <<>>,
     AdditionalMemory |-> 0,
     DisableSubmodules |-> FALSE]

DefaultSystemConfig == [Spec |-> [MaxAdditionalMemory |-> 0]]

DefaultDependencyBuild ==
    [Name |-> <<"d", "b", "1">>,
     Annotations |-> <<>>,
     Spec |-> [Version |-> <<"1.0">>,
               ScmInfo |-> [SCMURL |-> <<"https://github.com/org/repo.git">>,
                            CommitHash |-> <<"abcdef">>,
                            Private |-> FALSE]]]

DefaultBuildId == <<"b", "1">>

CommitTimes == {1700000000}

(***************************************************************************)
(* Specification Spec: createPipelineSpec applied to tools, recipes,       *)
(* tenant settings, parameter values and existing-image indexes.           *)
(***************************************************************************)
Tools == {"maven", "gradle", "sbt", "ant", "foo"}

KnownTools == {"maven", "gradle", "sbt", "ant"}

RecipeImages == { <<"quay.io/builder", ":1">>, <<"quay.io/builder", ":dev">> }

ProcessorImages ==
    { <<"quay.io/org/", "hacbs-jvm-build-request-processor", ":dev">>,
      <<"quay.io/org/", "hacbs-jvm-build-request-processor", ":latest">> }

ExistingImagesInputs ==
    { <<>>,
      ("quay.io/builder:1-maven" :> <<"quay.io/quay/artifact-deployments@sha256:0a1b">>),
      ("quay.io/builder:1-maven" :> <<>>),
      ("quay.io/builder:dev-ant" :> <<"sha256:ffff">>) }

PreBuildScripts ==
    { <<>>,
      <<"./prepare.sh ", "$(workspaces.source.path)", "\n">>,
      <<"echo ", "$(params.URL)", "\n">> }

ParamValuesInputs ==
    { <<>>,
      <<StringParam(PipelineParamScmUrl, <<"https://github.com/org/repo.git">>),
        ArrayParam(PipelineParamGoals, << <<"-Pfoo=", "(", "BAR", ")">>, <<"-Dx=1">> >>)>> }

BuildSettingsInputs ==
    { DefaultBuildSettings,
      [DefaultBuildSettings EXCEPT !.BuildRequestMemory = <<" ">>, !.TaskLimitCPU = <<"500m">>],
      [DefaultBuildSettings EXCEPT !.TaskRequestCPU = <<"lots">>] }

Init ==
    /\ fn = "createPipelineSpec"
    /\ pc = "call"
    /\ ret = NoRet
    /\ heap = NoHeap
    /\ \E tool \in Tools, img \in RecipeImages, brp \in ProcessorImages,
          ex \in ExistingImagesInputs, cb \in BOOLEAN, pre \in PreBuildScripts,
          pv \in ParamValuesInputs, bs \in BuildSettingsInputs, ct \in CommitTimes :
         \E rtool \in {tool, "maven"} :
           args = [tool |-> tool,
                   commitTime |-> ct,
                   jbsConfig |-> [DefaultJBSConfig EXCEPT !.Spec.ContainerBuilds = cb,
                                                          !.Spec.BuildSettings = bs],
                   systemConfig |-> DefaultSystemConfig,
                   recipe |-> [DefaultRecipe EXCEPT !.Tool = rtool, !.Image = img,
                                                    !.PreBuildScript = pre],
                   db |-> DefaultDependencyBuild,
                   paramValues |-> pv,
                   buildRequestProcessorImage |-> brp,
                   buildId |-> DefaultBuildId,
                   existingImages |-> ex]

CallCreatePipelineSpec ==
    /\ fn = "createPipelineSpec"
    /\ pc = "call"
    /\ ret' = createPipelineSpec(args.tool, args.commitTime, args.jbsConfig, args.systemConfig,
                                 args.recipe, args.db, args.paramValues,
                                 args.buildRequestProcessorImage, args.buildId,
                                 args.existingImages)
    /\ pc' = "done"
    /\ UNCHANGED <<fn, args, heap>>

Next == CallCreatePipelineSpec

Spec == Init /\ [][Next]_vars

\* A call of createPipelineSpec has returned.
PipelineDone == fn = "createPipelineSpec" /\ pc = "done"

\* ... and returned a task graph.
PipelineOk == PipelineDone /\ ret.err = "nil"

(***************************************************************************)
(* Reading the returned values.                                            *)
(***************************************************************************)
TasksNamed(ps, name) == SelectSeq(ps.Tasks, LAMBDA t : t.Name = name)

HasTask(ps, name) == TasksNamed(ps, name) # <<>>

TheTask(ps, name) == TasksNamed(ps, name)[1]

InSeq(x, sq) == \E k \in 1..Len(sq) : sq[k] = x

ParamsNamed(task, name) == SelectSeq(task.Params, LAMBDA q : q.Name = name)

\* The index of the first atom of text equal to a at or after position from, 0 if none.
IndexFrom(text, a, from) ==
    LET I == {k \in from..Len(text) : text[k] = a}
    IN  IF I = {} THEN 0 ELSE CHOOSE k \in I : \A j \in I : k <= j

\* The atoms of text after the atom open and before the next atom close.
Between(text, open, close) ==
    LET i == IndexFrom(text, open, 1)
        j == IF i = 0 THEN 0 ELSE IndexFrom(text, close, i + 1)
    IN  IF i = 0 \/ j = 0 THEN <<>> ELSE SubSeq(text, i + 1, j - 1)

\* The atoms of text before the atom close and after the last atom open before it.
BeforeMarker(text, open, close) ==
    LET j == IndexFrom(text, close, 1)
        I == {k \in 1..(j - 1) : text[k] = open}
        i == IF I = {} THEN 0 ELSE CHOOSE k \in I : \A m \in I : m <= k
    IN  IF j = 0 \/ i = 0 THEN <<>> ELSE SubSeq(text, i + 1, j - 1)

\* The text that the pre-build stage of the graph writes to build.sh.
GraphBuildSh(ps) ==
    Between(TheTask(ps, PreBuildTaskName).TaskSpec.Steps[1].Script,
            "/build.sh <<'RHTAPEOF'\n", "\nRHTAPEOF\n")

\* The encoded text that the diagnostic Containerfile writes to build.sh.
DiagnosticBuildSh(df) ==
    BeforeMarker(df, "\nRUN echo ", " | base64 -d >/var/workdir/build.sh")

\* The script part of run-build.sh: what follows the header's blank line.
RunBuildShScript(konfluxScript) ==
    SubSeq(konfluxScript, IndexFrom(konfluxScript, "\n\n", 1) + 1, Len(konfluxScript))

ArgsBuildRepos == buildReposOf(args.recipe)

ArgsKey == Flat(args.recipe.Image) \o "-" \o args.recipe.Tool

DigestParamName == IF args.jbsConfig.Spec.ContainerBuilds
                   THEN "SOURCE_ARTIFACT" ELSE PipelineResultPreBuildImageDigest

\* C2 as stated: the text written to build.sh by the pre-build stage, the text
\* written to build.sh by the diagnostic Containerfile and the script of
\* run-build.sh are the same sequence of characters.
C2_AsStated ==
    (PipelineOk /\ HasTask(ret.ps, PreBuildTaskName)) =>
        /\ DiagnosticBuildSh(ret.df) = EncodeToString(GraphBuildSh(ret.ps))
        /\ RunBuildShScript(ret.konfluxScript) = GraphBuildSh(ret.ps)

\* C2 (amended): the diagnostic build.sh and the script of run-build.sh (what
\* follows its #!/bin/sh, export and set -- header) are the same characters,
\* and they are doSubstitution applied to the text the pre-build stage writes
\* to build.sh; the three agree when doSubstitution changes nothing.
C2_ScriptConsistency ==
    PipelineOk =>
        /\ DiagnosticBuildSh(ret.df) = EncodeToString(RunBuildShScript(ret.konfluxScript))
        /\ Head(ret.konfluxScript) = "#!/bin/sh\n"
        /\ HasTask(ret.ps, PreBuildTaskName) =>
             LET g == GraphBuildSh(ret.ps)
                 sub == doSubstitution(g, args.paramValues, args.commitTime, ArgsBuildRepos)
             IN  /\ g # <<>>
                 /\ RunBuildShScript(ret.konfluxScript) = sub
                 /\ DiagnosticBuildSh(ret.df) = EncodeToString(sub)
                 /\ (sub = g) <=> (DiagnosticBuildSh(ret.df) = EncodeToString(g))

\* C2 witness: a recipe hook with a workspace reference, written unchanged by
\* the pre-build stage and substituted in the diagnostic Containerfile.
C2_Witness ==
    /\ PipelineOk
    /\ HasTask(ret.ps, PreBuildTaskName)
    /\ InSeq("$(workspaces.source.path)", args.recipe.PreBuildScript)
    /\ InSeq("$(workspaces.source.path)", GraphBuildSh(ret.ps))
    /\ InSeq("b64</var/workdir/workspace>", DiagnosticBuildSh(ret.df))
    /\ InSeq("/var/workdir/workspace", RunBuildShScript(ret.konfluxScript))

\* C3: the index maps the key to a non-empty value v: no pre-build task, the
\* build task runs after nothing and its upstream digest parameter is v.
C3_CacheShortCircuit ==
    (PipelineOk /\ ArgsKey \in DOMAIN args.existingImages
                /\ args.existingImages[ArgsKey] # <<>>) =>
        /\ ~HasTask(ret.ps, PreBuildTaskName)
        /\ Len(TasksNamed(ret.ps, BuildTaskName)) = 1
        /\ TheTask(ret.ps, BuildTaskName).RunAfter = <<>>
        /\ Len(ParamsNamed(TheTask(ret.ps, BuildTaskName), DigestParamName)) = 1
        /\ ParamsNamed(TheTask(ret.ps, BuildTaskName), DigestParamName)[1].Value.StringVal
             = args.existingImages[ArgsKey]

\* C3 witness: a cache hit in the delegated build.
C3_Witness ==
    /\ PipelineOk
    /\ args.jbsConfig.Spec.ContainerBuilds
    /\ ArgsKey \in DOMAIN args.existingImages
    /\ Len(ret.ps.Tasks) = 2
    /\ ParamsNamed(TheTask(ret.ps, BuildTaskName), "SOURCE_ARTIFACT")[1].Value.StringVal
         = <<"quay.io/quay/artifact-deployments@sha256:0a1b">>

\* C4: the index has no entry for the key: a pre-build task exists, the build
\* task runs after it and its upstream digest parameter is the reference to
\* the pre-build task's PRE_BUILD_IMAGE_DIGEST result.
C4_CacheMiss ==
    (PipelineOk /\ ArgsKey \notin DOMAIN args.existingImages) =>
        /\ Len(TasksNamed(ret.ps, PreBuildTaskName)) = 1
        /\ Len(TasksNamed(ret.ps, BuildTaskName)) = 1
        /\ InSeq(PreBuildTaskName, TheTask(ret.ps, BuildTaskName).RunAfter)
        /\ Len(ParamsNamed(TheTask(ret.ps, BuildTaskName), DigestParamName)) = 1
        /\ ParamsNamed(TheTask(ret.ps, BuildTaskName), DigestParamName)[1].Value.StringVal
             = <<"$(tasks.pre-build.results.PRE_BUILD_IMAGE_DIGEST)">>
        /\ InSeq(PipelineResultPreBuildImageDigest,
                 [k \in 1..Len(TheTask(ret.ps, PreBuildTaskName).TaskSpec.Results) |->
                     TheTask(ret.ps, PreBuildTaskName).TaskSpec.Results[k].Name])

\* C4 witness: a cache miss, the index holding another key, in the direct build.
C4_Witness ==
    /\ PipelineOk
    /\ ~args.jbsConfig.Spec.ContainerBuilds
    /\ args.existingImages # <<>>
    /\ ArgsKey \notin DOMAIN args.existingImages
    /\ Len(ret.ps.Tasks) = 3
    /\ TheTask(ret.ps, BuildTaskName).RunAfter = <<PreBuildTaskName>>

\* The value of the build task's upstream digest parameter.
BuildDigestValue(ps) ==
    ParamsNamed(TheTask(ps, BuildTaskName), DigestParamName)[1].Value.StringVal

\* C20 as stated: the pre-build task exists exactly when the index has no
\* entry for the key; with an entry, whatever its value, the build task runs
\* after nothing and its upstream digest parameter is the entry's value.
C20_AsStated ==
    PipelineOk =>
        /\ HasTask(ret.ps, PreBuildTaskName) <=> ArgsKey \notin DOMAIN args.existingImages
        /\ ArgsKey \in DOMAIN args.existingImages =>
             /\ TheTask(ret.ps, BuildTaskName).RunAfter = <<>>
             /\ BuildDigestValue(ret.ps) = args.existingImages[ArgsKey]

\* C20: the pre-build task exists exactly when the index has no entry for the
\* key or maps it to the empty value; then the build task runs after it and
\* its upstream digest parameter is the reference to the pre-build result;
\* otherwise the build task runs after nothing and the parameter is the
\* entry's value.
C20_PreBuildPresence ==
    PipelineOk =>
        LET miss == \/ ArgsKey \notin DOMAIN args.existingImages
                    \/ args.existingImages[ArgsKey] = <<>>
        IN  /\ HasTask(ret.ps, PreBuildTaskName) <=> miss
            /\ Len(ParamsNamed(TheTask(ret.ps, BuildTaskName), DigestParamName)) = 1
            /\ miss =>
                 /\ TheTask(ret.ps, BuildTaskName).RunAfter = <<PreBuildTaskName>>
                 /\ BuildDigestValue(ret.ps)
                      = <<"$(tasks.pre-build.results.PRE_BUILD_IMAGE_DIGEST)">>
            /\ ~miss =>
                 /\ TheTask(ret.ps, BuildTaskName).RunAfter = <<>>
                 /\ BuildDigestValue(ret.ps) = args.existingImages[ArgsKey]

\* C20 witness: the index maps the key to the empty value and the graph has
\* the pre-build task, which the build task runs after.
C20_Witness ==
    /\ PipelineOk
    /\ ArgsKey \in DOMAIN args.existingImages
    /\ args.existingImages[ArgsKey] = <<>>
    /\ HasTask(ret.ps, PreBuildTaskName)
    /\ TheTask(ret.ps, BuildTaskName).RunAfter = <<PreBuildTaskName>>
    /\ BuildDigestValue(ret.ps) = <<"$(tasks.pre-build.results.PRE_BUILD_IMAGE_DIGEST)">>

TaskNames(ps) == {ps.Tasks[k].Name : k \in 1..Len(ps.Tasks)}

\* t runs after u, directly or through other tasks.
RECURSIVE RunsAfter(_, _, _, _)
RunsAfter(ps, t, u, fuel) ==
    /\ fuel > 0
    /\ HasTask(ps, t)
    /\ \E k \in 1..Len(TheTask(ps, t).RunAfter) :
          \/ TheTask(ps, t).RunAfter[k] = u
          \/ RunsAfter(ps, TheTask(ps, t).RunAfter[k], u, fuel - 1)

\* C5: one build task, one post-build task, unique names, post-build after
\* build, build after pre-build when there is one, and no dependency cycle.
C5_GraphShape ==
    PipelineOk =>
        LET ps == ret.ps
            n == Len(ps.Tasks)
        IN  /\ Len(TasksNamed(ps, BuildTaskName)) = 1
            /\ Len(TasksNamed(ps, PostBuildTaskName)) = 1
            /\ Cardinality(TaskNames(ps)) = n
            /\ InSeq(BuildTaskName, TheTask(ps, PostBuildTaskName).RunAfter)
            /\ HasTask(ps, PreBuildTaskName) =>
                 /\ InSeq(PreBuildTaskName, TheTask(ps, BuildTaskName).RunAfter)
                 /\ RunsAfter(ps, PostBuildTaskName, PreBuildTaskName, n)
            /\ \A k \in 1..n : \A j \in 1..Len(ps.Tasks[k].RunAfter) :
                 ps.Tasks[k].RunAfter[j] \in TaskNames(ps)
            /\ \A name \in TaskNames(ps) : ~RunsAfter(ps, name, name, n)

\* C5 witness: the three-task graph pre-build, build, post-build.
C5_Witness ==
    /\ PipelineOk
    /\ TaskNames(ret.ps) = {PreBuildTaskName, BuildTaskName, PostBuildTaskName}
    /\ RunsAfter(ret.ps, PostBuildTaskName, BuildTaskName, 3)
    /\ RunsAfter(ret.ps, BuildTaskName, PreBuildTaskName, 3)

BuildSettingFields ==
    {"TaskRequestMemory", "BuildRequestMemory", "TaskRequestCPU", "TaskLimitCPU",
     "BuildRequestCPU", "BuildLimitCPU"}

IsBlank(setting) == \A k \in 1..Len(setting) : setting[k] \in {" ", "\t", "\n"}

\* Some override is non-blank and is no quantity.
SomeOverrideMalformed ==
    \E f \in BuildSettingFields :
        /\ ~IsBlank(args.jbsConfig.Spec.BuildSettings[f])
        /\ Flat(args.jbsConfig.Spec.BuildSettings[f]) \notin QuantityStrings

\* a occurs in text as a run of consecutive atoms.
Contains(text, a) ==
    \E k \in 1..(Len(text) - Len(a) + 1) : SubSeq(text, k, k + Len(a) - 1) = a

KnownToolAtoms == {mavenBuild[1], mavenSettings[1], gradleBuild[1], sbtBuild[1], antBuild[1]}

\* C9: for a tool outside maven, gradle, sbt and ant, with well-formed resource
\* quantities, no error is returned and the build-tool section of the script
\* is the line "echo unknown build tool <tool> && exit 1", in run-build.sh, in
\* the diagnostic build.sh and in the build.sh the pre-build stage writes.
C9_UnknownTool ==
    (PipelineDone /\ args.tool \notin KnownTools /\ ~SomeOverrideMalformed) =>
        LET line == <<"echo unknown build tool ", args.tool, " && exit 1">>
        IN  /\ ret.err = "nil"
            /\ Contains(ret.konfluxScript, line)
            /\ Contains(ret.df, EncodeToString(line))
            /\ \A k \in 1..Len(ret.konfluxScript) : ret.konfluxScript[k] \notin KnownToolAtoms
            /\ HasTask(ret.ps, PreBuildTaskName) =>
                 /\ Contains(GraphBuildSh(ret.ps), line)
                 /\ \A k \in 1..Len(GraphBuildSh(ret.ps)) :
                      GraphBuildSh(ret.ps)[k] \notin KnownToolAtoms

\* C9 witness: tool "foo", whose failing line is in the returned script.
C9_Witness ==
    /\ PipelineOk
    /\ args.tool = "foo"
    /\ Contains(ret.konfluxScript, <<"echo unknown build tool ", "foo", " && exit 1">>)
    /\ HasTask(ret.ps, PreBuildTaskName)

(***************************************************************************)
(* Parameter fan-out and plan-level results.                               *)
(***************************************************************************)
NamesOf(sq) == [k \in 1..Len(sq) |-> sq[k].Name]

\* The names of the parameters that a task of the graph declares: those of
\* its embedded task; a task that refers to a remote task embeds none.
DeclaredParams(task) == {task.TaskSpec.Params[k].Name : k \in 1..Len(task.TaskSpec.Params)}

\* The names, in order, of the plan's parameters among those bound on a task.
BoundPipelineParams(ps, task) ==
    SelectSeq(NamesOf(task.Params), LAMBDA n : InSeq(n, NamesOf(ps.Params)))

\* C11 as stated: on every task of the graph the plan's parameters bound are
\* the plan's parameters that the task declares, in declaration order.
C11_AsStated ==
    PipelineOk =>
        \A k \in 1..Len(ret.ps.Tasks) :
            BoundPipelineParams(ret.ps, ret.ps.Tasks[k])
                = SelectSeq(NamesOf(ret.ps.Params),
                            LAMBDA n : n \in DeclaredParams(ret.ps.Tasks[k]))

\* The plan-level results expected of a stage.
StageResults(stage) ==
    CASE stage = PreBuildTaskName ->
           <<PipelineResultPreBuildImageDigest, PipelineResultGitArchive>>
      [] stage = BuildTaskName ->
           <<PipelineResultImage, PipelineResultImageDigest>>
      [] stage = PostBuildTaskName ->
           <<PipelineResultContaminants, PipelineResultDeployedResources,
             PipelineResultPassedVerification, PipelineResultVerificationResult>>
      [] OTHER -> <<>>

\* The plan-level results whose value names a result of the stage.
ResultsOfStage(ps, stage) ==
    SelectSeq(ps.Results,
              LAMBDA r : \E n \in {StageResults(stage)[k] : k \in 1..Len(StageResults(stage))} :
                             r.Value = <<"$(tasks." \o stage \o ".results." \o n \o ")">>)

\* C12: the plan-level results are, once each, the results of the stages of
\* the graph, each with the value $(tasks.<stage>.results.<result>) under the
\* result's name; a stage that embeds its task declares those results; no
\* entry names a stage that is not in the graph.
C12_PlanResults ==
    PipelineOk =>
        LET ps == ret.ps
            stages == {PreBuildTaskName, BuildTaskName, PostBuildTaskName}
        IN  /\ \A stage \in stages :
                 IF HasTask(ps, stage)
                 THEN /\ NamesOf(ResultsOfStage(ps, stage)) = StageResults(stage)
                      /\ \A k \in 1..Len(ResultsOfStage(ps, stage)) :
                           ResultsOfStage(ps, stage)[k].Value
                             = <<"$(tasks." \o stage \o ".results."
                                   \o ResultsOfStage(ps, stage)[k].Name \o ")">>
                      /\ TheTask(ps, stage).Embedded =>
                           NamesOf(TheTask(ps, stage).TaskSpec.Results) = StageResults(stage)
                 ELSE ResultsOfStage(ps, stage) = <<>>
            /\ Len(ps.Results)
                 = Len(ResultsOfStage(ps, PreBuildTaskName))
                   + Len(ResultsOfStage(ps, BuildTaskName))
                   + Len(ResultsOfStage(ps, PostBuildTaskName))
            /\ \A name \in TaskNames(ps) : name \in stages

\* C12 witness: a cache hit in the delegated build, six results, none of pre-build.
C12_Witness ==
    /\ PipelineOk
    /\ args.jbsConfig.Spec.ContainerBuilds
    /\ ~HasTask(ret.ps, PreBuildTaskName)
    /\ Len(ret.ps.Results) = 6
    /\ ret.ps.Results[1] = [Name |-> "IMAGE_URL", Value |-> <<"$(tasks.build.results.IMAGE_URL)">>]

(***************************************************************************)
(* References to stage results.                                            *)
(***************************************************************************)
IsStageResultRef(a) == Len(a) >= 8 /\ SubSeq(a, 1, 8) = "$(tasks."

\* a refers to a result of the stage named t.
RefersToStage(a, t) ==
    LET prefix == "$(tasks." \o t \o ".results."
    IN  Len(a) > Len(prefix) /\ SubSeq(a, 1, Len(prefix)) = prefix

\* The atoms of a task's parameter values and of its steps' scripts.
TaskAtoms(task) ==
    UNION {{task.Params[k].Value.StringVal[i] : i \in 1..Len(task.Params[k].Value.StringVal)}
              : k \in 1..Len(task.Params)}
    \cup UNION {UNION {{task.Params[k].Value.ArrayVal[e][i]
                          : i \in 1..Len(task.Params[k].Value.ArrayVal[e])}
                          : e \in 1..Len(task.Params[k].Value.ArrayVal)}
                  : k \in 1..Len(task.Params)}
    \cup UNION {{task.TaskSpec.Steps[k].Script[i] : i \in 1..Len(task.TaskSpec.Steps[k].Script)}
                  : k \in 1..Len(task.TaskSpec.Steps)}

PlanResultAtoms(ps) ==
    UNION {{ps.Results[k].Value[i] : i \in 1..Len(ps.Results[k].Value)} : k \in 1..Len(ps.Results)}

\* a names a stage of the graph and, when that stage is embedded, one of the
\* results it declares.
NamesDeclaredResult(ps, a) ==
    \E t \in TaskNames(ps) :
        /\ RefersToStage(a, t)
        /\ TheTask(ps, t).Embedded =>
             \E k \in 1..Len(TheTask(ps, t).TaskSpec.Results) :
                 a = TaskResultRef(t, TheTask(ps, t).TaskSpec.Results[k].Name)

\* C21: every stage-result reference in a task's parameters or scripts names
\* a stage of the graph that the task runs after and, when that stage is
\* embedded, a result it declares; every stage-result reference in the
\* plan-level results names a stage of the graph and, when that stage is
\* embedded, a result it declares.
C21_ResultReferences ==
    PipelineOk =>
        /\ \A k \in 1..Len(ret.ps.Tasks) :
             \A a \in TaskAtoms(ret.ps.Tasks[k]) :
                 IsStageResultRef(a) =>
                     /\ NamesDeclaredResult(ret.ps, a)
                     /\ \E t \in TaskNames(ret.ps) :
                          /\ RefersToStage(a, t)
                          /\ RunsAfter(ret.ps, ret.ps.Tasks[k].Name, t, Len(ret.ps.Tasks))
        /\ \A a \in PlanResultAtoms(ret.ps) :
             IsStageResultRef(a) => NamesDeclaredResult(ret.ps, a)

\* C21 witness: a cache miss in the direct build: the build task's parameter
\* refers to the pre-build result and the post-build script to the build
\* task's digest.
C21_Witness ==
    /\ PipelineOk
    /\ ~args.jbsConfig.Spec.ContainerBuilds
    /\ HasTask(ret.ps, PreBuildTaskName)
    /\ "$(tasks.pre-build.results.PRE_BUILD_IMAGE_DIGEST)" \in TaskAtoms(TheTask(ret.ps, BuildTaskName))
    /\ "$(tasks.build.results.IMAGE_DIGEST)" \in TaskAtoms(TheTask(ret.ps, PostBuildTaskName))
    /\ "$(tasks.post-build.results.CONTAMINANTS)" \in PlanResultAtoms(ret.ps)

(***************************************************************************)
(* Pull policy, secrets, timeouts.                                         *)
(***************************************************************************)
\* C22 as stated: every step of every embedded task pulls Always when its own
\* image ends in ":dev" and IfNotPresent otherwise.
C22_AsStated ==
    PipelineOk =>
        \A k \in 1..Len(ret.ps.Tasks) :
            \A i \in 1..Len(ret.ps.Tasks[k].TaskSpec.Steps) :
                LET step == ret.ps.Tasks[k].TaskSpec.Steps[i]
                IN  step.ImagePullPolicy =
                        IF HasSuffix(step.Image, <<":dev">>) THEN PullAlways ELSE PullIfNotPresent

\* The number of build stages of a container description before the
\* from-scratch stage.
StagesBeforeScratch(kf) == Cardinality({k \in 1..Len(kf) : kf[k] \in {"FROM ", "\nFROM "}})

\* C24: the portable container description has the builder-processor stage
\* running copy-artifacts exactly when the tool is ant; for every tool its
\* only from-scratch stage is its end and holds one instruction, the copy of
\* the artifacts directory from the last stage before it (1 for ant, 0
\* otherwise).
C24_PortableDescription ==
    PipelineOk =>
        LET kf == ret.kf
            n == Len(kf)
            ant == args.tool = "ant"
        IN  /\ Contains(kf, <<"\nFROM ">> \o args.buildRequestProcessorImage
                               \o <<" AS build-request-processor">>) <=> ant
            /\ Contains(kf, <<"\nRUN /opt/jboss/container/java/run/run-java.sh ",
                              "copy-artifacts">>) <=> ant
            /\ StagesBeforeScratch(kf) = (IF ant THEN 2 ELSE 1)
            /\ {k \in 1..n : kf[k] = "\nFROM scratch"} = {n - 1}
            /\ kf[n] = "\nCOPY --from=" \o ToString(StagesBeforeScratch(kf) - 1)
                          \o " /var/workdir/workspace/artifacts /"

\* C24 witness: tool ant, whose description copies from stage 1.
C24_Witness ==
    /\ PipelineOk
    /\ args.tool = "ant"
    /\ InSeq("copy-artifacts", ret.kf)
    /\ ret.kf[Len(ret.kf)] = "\nCOPY --from=1 /var/workdir/workspace/artifacts /"

\* C25: the build task and the post-build task each carry the timeout of the
\* one fixed duration, in the direct and in the delegated build, and the
\* pre-build task, when the graph has it, carries none.
C25_Timeouts ==
    PipelineOk =>
        /\ Len(TasksNamed(ret.ps, BuildTaskName)) = 1
        /\ Len(TasksNamed(ret.ps, PostBuildTaskName)) = 1
        /\ TheTask(ret.ps, BuildTaskName).Timeout = DefaultTimeout
        /\ TheTask(ret.ps, PostBuildTaskName).Timeout = DefaultTimeout
        /\ DefaultTimeout # NoTimeout
        /\ HasTask(ret.ps, PreBuildTaskName) =>
             TheTask(ret.ps, PreBuildTaskName).Timeout = NoTimeout

\* C25 witness: a delegated build on a cache miss: three tasks, the first
\* without timeout.
C25_Witness ==
    /\ PipelineOk
    /\ args.jbsConfig.Spec.ContainerBuilds
    /\ HasTask(ret.ps, PreBuildTaskName)
    /\ TheTask(ret.ps, PreBuildTaskName).Timeout = NoTimeout
    /\ ~TheTask(ret.ps, BuildTaskName).Embedded
    /\ TheTask(ret.ps, BuildTaskName).Timeout = DefaultTimeout

\* C26: the call never indexes the task list past its end; on every embedded
\* task of a returned graph the names bound are the names the task declares,
\* each bound once.
C26_EmbeddedBindings ==
    PipelineDone =>
        /\ ret.err # "panic: index out of range"
        /\ PipelineOk =>
             \A k \in 1..Len(ret.ps.Tasks) :
                 LET task == ret.ps.Tasks[k]
                     bound == {task.Params[i].Name : i \in 1..Len(task.Params)}
                 IN  task.Embedded =>
                         /\ bound = DeclaredParams(task)
                         /\ Cardinality(bound) = Len(task.Params)

\* C26 witness: a cache miss in the direct build: three embedded tasks, the
\* pre-build task with the plan's parameters, the others with one more.
C26_Witness ==
    /\ PipelineOk
    /\ Len(ret.ps.Tasks) = 3
    /\ \A k \in 1..3 : ret.ps.Tasks[k].Embedded
    /\ Len(TheTask(ret.ps, PreBuildTaskName).Params) = Len(ret.ps.Params)
    /\ Len(TheTask(ret.ps, BuildTaskName).Params) = Len(ret.ps.Params) + 1
    /\ Len(TheTask(ret.ps, PostBuildTaskName).Params) = Len(ret.ps.Params) + 1

(***************************************************************************)
(* Where the build step's build.sh comes from.                             *)
(***************************************************************************)
\* The script assembled by the call.
AssembledBuild ==
    assembleBuild(buildToolSectionOf(args.tool), additionalPackages(args.recipe), args.recipe)

\* The embedded tasks of the graph with a step that writes build.sh.
TasksWritingBuildSh(ps) ==
    {ps.Tasks[k].Name : k \in {j \in 1..Len(ps.Tasks) :
        \E i \in 1..Len(ps.Tasks[j].TaskSpec.Steps) :
            InSeq("/build.sh <<'RHTAPEOF'\n", ps.Tasks[j].TaskSpec.Steps[i].Script)}}

\* The index of the step of a task with the given name, 0 if none.
StepIndex(task, name) ==
    LET I == {i \in 1..Len(task.TaskSpec.Steps) : task.TaskSpec.Steps[i].Name = name}
    IN  IF I = {} THEN 0 ELSE CHOOSE i \in I : TRUE

\* The build task restores the archive that its PRE_BUILD_IMAGE_DIGEST
\* parameter names and moves the archive's .jbs/build.sh into the workspace
\* in a step before the one that executes build.sh.
BuildRunsArchivedBuildSh(ps) ==
    LET task == TheTask(ps, BuildTaskName)
        r == StepIndex(task, "restore-pre-build-source")
        b == StepIndex(task, "build")
    IN  /\ 0 < r /\ r < b
        /\ Contains(task.TaskSpec.Steps[r].Script,
                    <<"\"\nuse-archive ", "$(params.PRE_BUILD_IMAGE_DIGEST)", "=",
                      "$(workspaces.source.path)", "/source\nmv ", "$(workspaces.source.path)",
                      "/source/.jbs/build.sh ", "$(workspaces.source.path)">>)
        /\ task.TaskSpec.Steps[b].Script = <<"$(workspaces.source.path)", "/build.sh \"$@\"">>

\* C27 as stated: in every direct-execution graph a task of the graph, the
\* build task itself or one it runs after, writes the script assembled by the
\* call to build.sh.
C27_AsStated ==
    (PipelineOk /\ ~args.jbsConfig.Spec.ContainerBuilds) =>
        \E t \in TasksWritingBuildSh(ret.ps) :
            /\ t = BuildTaskName \/ RunsAfter(ret.ps, BuildTaskName, t, Len(ret.ps.Tasks))
            /\ t = PreBuildTaskName => GraphBuildSh(ret.ps) = AssembledBuild

\* C27: in every direct-execution graph the build step executes the build.sh
\* of the archive its task restores.  With the pre-build task in the graph
\* (cache miss) that task alone writes build.sh, with the script assembled by
\* the call, copies it into the archive it stores, and the build task runs
\* after it and restores the archive of its result; without it (cache hit) no
\* task of the graph writes build.sh and the archive restored is the one the
\* index names.
C27_BuildShOrigin ==
    (PipelineOk /\ ~args.jbsConfig.Spec.ContainerBuilds) =>
        /\ BuildRunsArchivedBuildSh(ret.ps)
        /\ HasTask(ret.ps, PreBuildTaskName) =>
             /\ TasksWritingBuildSh(ret.ps) = {PreBuildTaskName}
             /\ GraphBuildSh(ret.ps) = AssembledBuild
             /\ Contains(TheTask(ret.ps, PreBuildTaskName).TaskSpec.Steps[4].Script,
                         <<"/build.sh ", "$(workspaces.source.path)",
                           "/source/.jbs\ncreate-archive --store ">>)
             /\ RunsAfter(ret.ps, BuildTaskName, PreBuildTaskName, Len(ret.ps.Tasks))
             /\ BuildDigestValue(ret.ps) = <<"$(tasks.pre-build.results.PRE_BUILD_IMAGE_DIGEST)">>
        /\ ~HasTask(ret.ps, PreBuildTaskName) =>
             /\ TasksWritingBuildSh(ret.ps) = {}
             /\ ArgsKey \in DOMAIN args.existingImages
             /\ BuildDigestValue(ret.ps) = args.existingImages[ArgsKey]

\* C27 witness: a cache hit in the direct build: no task writes build.sh and
\* the build task restores the archive the index names.
C27_Witness ==
    /\ PipelineOk
    /\ ~args.jbsConfig.Spec.ContainerBuilds
    /\ ~HasTask(ret.ps, PreBuildTaskName)
    /\ TasksWritingBuildSh(ret.ps) = {}
    /\ BuildRunsArchivedBuildSh(ret.ps)
    /\ BuildDigestValue(ret.ps) = <<"quay.io/quay/artifact-deployments@sha256:0a1b">>

(***************************************************************************)
(* Specification SpecRegistry: registryArgsWithDefaults applied to tenant  *)
(* registry settings and tags around the 128 character limit.              *)
(***************************************************************************)
TagSlack == 2

TagLengths == {0, 1, 2} \cup ((MaxTagLength - 3) .. (MaxTagLength + TagSlack))

TagInputs ==
    { Rep("a", n) \o s : n \in TagLengths,
                         s \in {<<>>, <<"b">>, <<":", "c">>, <<":", "c", ":">>} }

TagPrefixes == {<<>>, <<"p">>, <<"p", "q">>} \cup { Rep("p", MaxTagLength - 1) \o <<"q", "r">> }

RegistryInputs ==
    { [DefaultRegistry EXCEPT !.Host = h, !.Port = po, !.Owner = o, !.Repository = rp,
                              !.PrependTag = pt] :
        h \in {<<>>, <<"reg.io">>}, po \in {<<>>, <<"443">>, <<"5000">>},
        o \in {<<>>, <<"own">>}, rp \in {<<>>, <<"repo">>}, pt \in TagPrefixes }

InitRegistry ==
    /\ fn = "registryArgsWithDefaults"
    /\ pc = "call"
    /\ ret = NoRet
    /\ heap = NoHeap
    /\ \E r \in RegistryInputs, t \in TagInputs :
         args = [jbsConfig |-> [DefaultJBSConfig EXCEPT !.Spec.Registry = r],
                 preBuildImageTag |-> t]

CallRegistryArgsWithDefaults ==
    /\ fn = "registryArgsWithDefaults"
    /\ pc = "call"
    /\ ret' = registryArgsWithDefaults(args.jbsConfig, args.preBuildImageTag)
    /\ pc' = "done"
    /\ UNCHANGED <<fn, args, heap>>

NextRegistry == CallRegistryArgsWithDefaults

SpecRegistry == InitRegistry /\ [][NextRegistry]_vars

RegistryDone == fn = "registryArgsWithDefaults" /\ pc = "done"

\* The part of an image reference after its last colon.
TagPart(ref) == SubSeq(ref, LastIndex(ref, ":") + 1, Len(ref))

IsPrefix(a, b) == Len(a) <= Len(b) /\ SubSeq(b, 1, Len(a)) = a

Take(s, n) == IF Len(s) > n THEN SubSeq(s, 1, n) ELSE s

\* C6 as stated: the tag part of the address for prefix p and a supplied,
\* colon-free tag input t is p + "_" + t, cut to its first 128 characters when
\* longer, for every p and t.
C6_AsStated ==
    (RegistryDone /\ args.preBuildImageTag # <<>>
                  /\ LastIndex(args.preBuildImageTag, ":") = 0) =>
        LET p == args.jbsConfig.Spec.Registry.PrependTag
            t == args.preBuildImageTag
            pf == p \o <<"_">> \o t
        IN  IF Len(pf) > MaxTagLength
            THEN Len(TagPart(ret)) = MaxTagLength /\ IsPrefix(TagPart(ret), pf)
            ELSE TagPart(ret) = pf

\* The untruncated tag of the amended C6.
C6_Untruncated(p, t) ==
    LET i == LastIndex(t, ":")
    IN  IF i # 0 THEN p \o <<"_">> \o SubSeq(t, i + 1, Len(t))
        ELSE IF p = <<>> THEN t ELSE p \o <<"_">> \o t

\* C6 (amended): for a non-empty tag input t and prefix p the tag part of the
\* address is U cut to its first 128 characters, where U is p + "_" + t for a
\* non-empty p, t itself for an empty p, and p + "_" + (the part of t after its
\* last colon) when t holds a colon; an address is returned for every input.
C6_TagTruncation ==
    RegistryDone =>
      /\ Len(ret) > 0
      /\ args.preBuildImageTag # <<>> =>
        LET p == args.jbsConfig.Spec.Registry.PrependTag
            t == args.preBuildImageTag
            U == C6_Untruncated(p, t)
        IN  /\ Len(TagPart(ret)) <= MaxTagLength
            /\ IsPrefix(TagPart(ret), U)
            /\ TagPart(ret) = Take(U, MaxTagLength)
            /\ Len(U) > MaxTagLength => Len(TagPart(ret)) = MaxTagLength
            /\ Len(U) <= MaxTagLength => TagPart(ret) = U

\* C6 witness: a colon-free tag whose prefixed form is longer than 128 was cut.
C6_Witness ==
    /\ RegistryDone
    /\ LastIndex(args.preBuildImageTag, ":") = 0
    /\ args.jbsConfig.Spec.Registry.PrependTag = <<"p", "q">>
    /\ Len(args.preBuildImageTag) = MaxTagLength
    /\ Len(TagPart(ret)) = MaxTagLength
    /\ TagPart(ret) # args.jbsConfig.Spec.Registry.PrependTag \o <<"_">> \o args.preBuildImageTag

\* C14: the address is host[:port]/[owner/]repository[:tag]: the configured
\* host or quay.io; the port if and only if it is set and is not 443; the
\* owner and a slash if and only if the owner is set; the configured
\* repository or artifact-deployments; a colon and the tag if and only if a
\* tag is passed.
C14_AddressShape ==
    RegistryDone =>
        LET r == args.jbsConfig.Spec.Registry
            t == args.preBuildImageTag
            i == LastIndex(t, ":")
            withPort == r.Port # <<>> /\ r.Port # <<"443">>
            withOwner == r.Owner # <<>>
            withTag == t # <<>>
            base == (IF r.Host = <<>> THEN <<"quay.io">> ELSE r.Host)
                    \o (IF withPort THEN <<":">> \o r.Port ELSE <<>>)
                    \o <<"/">>
                    \o (IF withOwner THEN r.Owner \o <<"/">> ELSE <<>>)
                    \o (IF r.Repository = <<>> THEN <<"artifact-deployments">> ELSE r.Repository)
        IN  /\ IsPrefix(base, ret)
            /\ withTag <=> Len(ret) > Len(base)
            /\ withTag =>
                 ret = base \o <<":">> \o SubSeq(t, 1, i)
                            \o Take(C6_Untruncated(r.PrependTag, t), MaxTagLength)
            /\ ~withTag => ret = base

\* C14 witness: no host, port 443, an owner, a repository and a tag:
\* quay.io/own/repo:p_a.
C14_Witness ==
    /\ RegistryDone
    /\ args.jbsConfig.Spec.Registry.Port = <<"443">>
    /\ ret = <<"quay.io", "/", "own", "/", "repo", ":", "p", "_", "a">>

\* The tag of a plain, colon-free tag input t under prefix p.
PlainTag(p, t) == Take(IF p = <<>> THEN t ELSE p \o <<"_">> \o t, MaxTagLength)

\* C15 as stated: for an input x + ":" + t, x and t not empty, the tag of the
\* result is the tag that the input t alone gives under the same prefix, the
\* empty prefix too.
C15_AsStated ==
    (RegistryDone /\ LastIndex(args.preBuildImageTag, ":") > 1
                  /\ LastIndex(args.preBuildImageTag, ":") < Len(args.preBuildImageTag)) =>
        LET p == args.jbsConfig.Spec.Registry.PrependTag
            i == LastIndex(args.preBuildImageTag, ":")
            x == SubSeq(args.preBuildImageTag, 1, i - 1)
            t == SubSeq(args.preBuildImageTag, i + 1, Len(args.preBuildImageTag))
        IN  /\ TagPart(ret) = PlainTag(p, t)
            /\ IsPrefix(x \o <<":">> \o PlainTag(p, t),
                        SubSeq(ret, Len(ret) - Len(x) - Len(PlainTag(p, t)), Len(ret)))

(***************************************************************************)
(* Specification SpecArrayParam: extractArrayParam applied to parameter    *)
(* lists of string and array parameters.                                   *)
(***************************************************************************)
MaxParams == 2

MaxArrayLen == 2

SeqsUpTo(S, n) == UNION { [1..k -> S] : k \in 0..n }

ArrayElements == { <<"-Pfoo=", "(", "BAR", ")">>, <<"-Dx=1">> }

ArrayParamInputs ==
    { ArrayParam(n, v) : n \in {PipelineParamGoals, "OTHER"},
                         v \in SeqsUpTo(ArrayElements, MaxArrayLen) }
    \cup { StringParam(PipelineParamGoals, <<"(", "install", ")">>) }

InitArrayParam ==
    /\ fn = "extractArrayParam"
    /\ pc = "call"
    /\ ret = NoRet
    /\ heap = NoHeap
    /\ \E k \in {PipelineParamGoals, "MISSING"}, ps \in SeqsUpTo(ArrayParamInputs, MaxParams) :
         args = [key |-> k, paramValues |-> ps]

CallExtractArrayParam ==
    /\ fn = "extractArrayParam"
    /\ pc = "call"
    /\ ret' = extractArrayParam(args.key, args.paramValues)
    /\ pc' = "done"
    /\ UNCHANGED <<fn, args, heap>>

NextArrayParam == CallExtractArrayParam

SpecArrayParam == InitArrayParam /\ [][NextArrayParam]_vars

ArrayParamDone == fn = "extractArrayParam" /\ pc = "done"

\* The elements, in order, of every array parameter of the list named key.
RECURSIVE C8_Elements(_, _)
C8_Elements(key, params) ==
    IF params = <<>> THEN <<>>
    ELSE (IF Head(params).Name = key THEN Head(params).Value.ArrayVal ELSE <<>>)
         \o C8_Elements(key, Tail(params))

C8_IsParen(a) == a = "(" \/ a = ")"

\* C8: extractArrayParam returns, for the matching parameters' array elements
\* in order, each element without its parentheses and followed by one space;
\* other names contribute nothing, an absent name gives the empty string, and
\* ["-Pfoo=(BAR)", "-Dx=1"] gives "-Pfoo=BAR -Dx=1 ".
C8_ExtractArrayParam ==
    ArrayParamDone =>
        LET es == C8_Elements(args.key, args.paramValues)
            expected == Concat([k \in 1..Len(es) |->
                           SelectSeq(es[k], LAMBDA a : ~C8_IsParen(a)) \o <<" ">>])
        IN  /\ ret = expected
            /\ \A k \in 1..Len(ret) : ~C8_IsParen(ret[k])
            /\ (es # <<>>) => ret[Len(ret)] = " "
            /\ (es = <<>>) => Flat(ret) = ""
            /\ (es = << <<"-Pfoo=", "(", "BAR", ")">>, <<"-Dx=1">> >>)
                   => Flat(ret) = "-Pfoo=BAR -Dx=1 "

\* C8 witness: the example of the claim, beside a parameter of another name.
C8_Witness ==
    /\ ArrayParamDone
    /\ args.key = PipelineParamGoals
    /\ args.paramValues = << ArrayParam("OTHER", << <<"-Dx=1">> >>),
                             ArrayParam(PipelineParamGoals,
                                        << <<"-Pfoo=", "(", "BAR", ")">>, <<"-Dx=1">> >>) >>
    /\ Flat(ret) = "-Pfoo=BAR -Dx=1 "

(***************************************************************************)
(* Specification SpecLimits: createPipelineSpec applied to additional      *)
(* memory requests, system ceilings and tenant quantity overrides.         *)
(***************************************************************************)
MaxMemory == 3

AdditionalMemoryInputs == (0 - 1)..MaxMemory

OverrideInputs(f) ==
    { <<" ">>, <<"\t", "\n">>, <<"lots">>, <<"2Gi", " ">>,
      IF f \in {"TaskRequestMemory", "BuildRequestMemory"} THEN <<"2Gi">> ELSE <<"500m">> }

LimitsBuildSettingsInputs ==
    {DefaultBuildSettings}
    \cup UNION {{[DefaultBuildSettings EXCEPT ![f] = v] : v \in OverrideInputs(f)} :
                    f \in BuildSettingFields}
    \cup {[DefaultBuildSettings EXCEPT !.BuildRequestMemory = <<"2Gi">>, !.BuildLimitCPU = <<"fast">>]}

InitLimits ==
    /\ fn = "createPipelineSpec"
    /\ pc = "call"
    /\ ret = NoRet
    /\ heap = NoHeap
    /\ \E a \in AdditionalMemoryInputs, c \in AdditionalMemoryInputs, cb \in BOOLEAN,
          bs \in LimitsBuildSettingsInputs, ct \in CommitTimes,
          ex \in {<<>>, ("quay.io/builder:1-maven" :> <<"sha256:ffff">>)} :
         args = [tool |-> "maven",
                 commitTime |-> ct,
                 jbsConfig |-> [DefaultJBSConfig EXCEPT !.Spec.ContainerBuilds = cb,
                                                        !.Spec.BuildSettings = bs],
                 systemConfig |-> [Spec |-> [MaxAdditionalMemory |-> c]],
                 recipe |-> [DefaultRecipe EXCEPT !.AdditionalMemory = a],
                 db |-> DefaultDependencyBuild,
                 paramValues |-> <<>>,
                 buildRequestProcessorImage |->
                     <<"quay.io/org/", "hacbs-jvm-build-request-processor", ":dev">>,
                 buildId |-> DefaultBuildId,
                 existingImages |-> ex]

NextLimits == CallCreatePipelineSpec

SpecLimits == InitLimits /\ [][NextLimits]_vars

\* The value of a memory override, or of the fixed default when it is blank.
BaseMemory(setting, defaultMi) ==
    IF IsBlank(setting) THEN defaultMi ELSE QuantityValue(Flat(setting))

StepsNamed(ps, task, step) ==
    IF HasTask(ps, task) /\ TheTask(ps, task).Embedded
    THEN SelectSeq(TheTask(ps, task).TaskSpec.Steps, LAMBDA st : st.Name = step)
    ELSE <<>>

\* The memory requests in the graph that additional memory is added to: the
\* pre-build task's first two steps (task request memory) and the build step
\* of the direct build (build request memory), each less its base quantity.
AddedMemory ==
    {StepsNamed(ret.ps, PreBuildTaskName, n)[1].ComputeResources.Requests.memory
        - BaseMemory(args.jbsConfig.Spec.BuildSettings.TaskRequestMemory, 512) :
            n \in {n \in {"git-clone-and-settings", "preprocessor"} :
                      StepsNamed(ret.ps, PreBuildTaskName, n) # <<>>}}
    \cup
    {StepsNamed(ret.ps, BuildTaskName, n)[1].ComputeResources.Requests.memory
        - BaseMemory(args.jbsConfig.Spec.BuildSettings.BuildRequestMemory, 1024) :
            n \in {n \in {"build"} : StepsNamed(ret.ps, BuildTaskName, n) # <<>>}}

\* C7 as stated, for a request a and a ceiling c of zero or more: a above c
\* adds c; a at or below c adds a.
C7_AsStated ==
    (PipelineOk /\ args.recipe.AdditionalMemory >= 0
                /\ args.systemConfig.Spec.MaxAdditionalMemory >= 0) =>
        LET a == args.recipe.AdditionalMemory
            c == args.systemConfig.Spec.MaxAdditionalMemory
        IN  \A added \in AddedMemory : added = (IF a > c THEN c ELSE a)

\* C7 (amended): with a ceiling c above zero, a request a above c adds c; in
\* every other case a request above zero adds a, and a request of zero or
\* less adds nothing.  A ceiling of zero or less is no ceiling.
C7_MemoryCap ==
    PipelineOk =>
        LET a == args.recipe.AdditionalMemory
            c == args.systemConfig.Spec.MaxAdditionalMemory
        IN  \A added \in AddedMemory :
                added = (IF c > 0 /\ a > c THEN c ELSE IF a > 0 THEN a ELSE 0)

\* C7 witness: a request above a ceiling above zero, in a graph with the
\* pre-build steps and the direct build step, all raised by the ceiling.
C7_Witness ==
    /\ PipelineOk
    /\ args.systemConfig.Spec.MaxAdditionalMemory > 0
    /\ args.recipe.AdditionalMemory > args.systemConfig.Spec.MaxAdditionalMemory
    /\ StepsNamed(ret.ps, PreBuildTaskName, "git-clone-and-settings") # <<>>
    /\ StepsNamed(ret.ps, BuildTaskName, "build") # <<>>
    /\ AddedMemory = {args.systemConfig.Spec.MaxAdditionalMemory}

\* C10: a non-blank override that is no quantity gives an error, a nil task
\* graph and empty diagnostic, portable and script texts; with every override
\* blank or a quantity no error is returned and a graph is.
C10_MalformedQuantity ==
    PipelineDone =>
        /\ SomeOverrideMalformed =>
             /\ ret.err # "nil"
             /\ ret.ps = NilPipelineSpec
             /\ ret.df = <<>> /\ ret.kf = <<>> /\ ret.konfluxScript = <<>>
        /\ ~SomeOverrideMalformed =>
             /\ ret.err = "nil"
             /\ ret.ps # NilPipelineSpec
             /\ ret.df # <<>> /\ ret.kf # <<>> /\ ret.konfluxScript # <<>>

\* C10 witness: one call failed on a malformed build CPU limit, the override
\* last parsed; the witness of the blank case is C10_WitnessBlank.
C10_Witness ==
    /\ PipelineDone
    /\ args.jbsConfig.Spec.BuildSettings.BuildLimitCPU = <<"lots">>
    /\ ret.err # "nil"
    /\ ret.ps = NilPipelineSpec

\* A whitespace-only override, the fixed default in its place.
C10_WitnessBlank ==
    /\ PipelineOk
    /\ args.jbsConfig.Spec.BuildSettings.TaskRequestMemory = <<"\t", "\n">>
    /\ args.recipe.AdditionalMemory = 0
    /\ StepsNamed(ret.ps, PreBuildTaskName, "preprocessor")[1].ComputeResources.Requests.memory = 512

\* The value of a CPU override, or of the fixed default when it is blank.
BaseCPU(setting, defaultMilli) ==
    IF IsBlank(setting) THEN defaultMilli ELSE QuantityValue(Flat(setting))

\* The steps of the embedded tasks of the graph that carry resources, each
\* with the name of its task.
ResourceSteps(ps) ==
    UNION {{[task |-> ps.Tasks[k].Name, step |-> ps.Tasks[k].TaskSpec.Steps[j]] :
               j \in {j \in 1..Len(ps.Tasks[k].TaskSpec.Steps) :
                         ps.Tasks[k].TaskSpec.Steps[j].ComputeResources.Set}} :
           k \in 1..Len(ps.Tasks)}

\* The additional memory that memoryLimits is given and applies.
AppliedMemory ==
    LET a == args.recipe.AdditionalMemory
        c == args.systemConfig.Spec.MaxAdditionalMemory
    IN  IF c > 0 /\ a > c THEN c ELSE IF a > 0 THEN a ELSE 0

\* The steps whose memory is the default request memory, the build-stage
\* request memory, and (all others) the default build request memory.
UsesDefaultRequestMemory(s) ==
    s.task = PreBuildTaskName /\ s.step.Name \in {"git-clone-and-settings", "preprocessor"}

UsesBuildRequestMemory(s) == s.task = BuildTaskName /\ s.step.Name = "build"

\* C13 as stated: with additional memory applied, every memory limit of the
\* generated stages is what it is with none applied.
C13_AsStated ==
    (PipelineOk /\ AppliedMemory > 0) =>
        LET bs == args.jbsConfig.Spec.BuildSettings
        IN  \A s \in ResourceSteps(ret.ps) :
                s.step.ComputeResources.Limits.memory
                  = (IF UsesDefaultRequestMemory(s)
                     THEN BaseMemory(bs.TaskRequestMemory, 512)
                     ELSE BaseMemory(bs.BuildRequestMemory, 1024))

\* C13 (amended): additional memory m is added to the default request memory
\* and to the build-stage request memory and to no other quantity; every
\* step's memory limit is its memory request, so the limits of the steps on
\* those two quantities rise by m with the requests and all other memory
\* limits, and all CPU quantities, are what they are with m = 0; with m = 0
\* every quantity is its configured or default value.
C13_MemoryFrame ==
    PipelineOk =>
        LET bs == args.jbsConfig.Spec.BuildSettings
            m == AppliedMemory
        IN  \A s \in ResourceSteps(ret.ps) :
              LET r == s.step.ComputeResources
              IN  /\ r.Limits.memory = r.Requests.memory
                  /\ r.Requests.memory
                       = (IF UsesDefaultRequestMemory(s)
                          THEN BaseMemory(bs.TaskRequestMemory, 512) + m
                          ELSE IF UsesBuildRequestMemory(s)
                          THEN BaseMemory(bs.BuildRequestMemory, 1024) + m
                          ELSE BaseMemory(bs.BuildRequestMemory, 1024))
                  /\ r.Requests.cpu
                       = (IF UsesBuildRequestMemory(s)
                          THEN BaseCPU(bs.BuildRequestCPU, 300)
                          ELSE BaseCPU(bs.TaskRequestCPU, 10))
                  /\ r.Limits.cpu
                       = (IF UsesBuildRequestMemory(s)
                          THEN BaseCPU(bs.BuildLimitCPU, 2000)
                          ELSE BaseCPU(bs.TaskLimitCPU, 300))

\* C13 witness: additional memory applied in a graph with steps on each of
\* the three memory quantities.
C13_Witness ==
    /\ PipelineOk
    /\ AppliedMemory > 0
    /\ \E s \in ResourceSteps(ret.ps) :
          UsesDefaultRequestMemory(s) /\ s.step.ComputeResources.Limits.memory = 512 + AppliedMemory
    /\ \E s \in ResourceSteps(ret.ps) :
          UsesBuildRequestMemory(s) /\ s.step.ComputeResources.Limits.memory = 1024 + AppliedMemory
    /\ \E s \in ResourceSteps(ret.ps) :
          s.task = PostBuildTaskName /\ s.step.ComputeResources.Limits.memory = 1024

(***************************************************************************)
(* Specification SpecPackages: additionalPackages applied to lists of      *)
(* additional downloads, valid, lacking a required field, or of an unknown *)
(* file type.                                                              *)
(***************************************************************************)
MaxDownloads == 3

Download(uri, fileType, fileName, binaryPath, packageName) ==
    [Uri |-> <<uri>>, Sha256 |-> <<"abc123">>, FileType |-> fileType, FileName |-> fileName,
     BinaryPath |-> binaryPath, PackageName |-> packageName]

DownloadInputs ==
    { Download("https://dl/a.tar", "tar", <<>>, <<"bin">>, <<>>),
      Download("https://dl/b.tar", "tar", <<>>, <<>>, <<>>),
      Download("https://dl/c", "executable", <<"c">>, <<>>, <<>>),
      Download("https://dl/d", "executable", <<>>, <<>>, <<>>),
      Download("https://dl/e.rpm", "rpm", <<>>, <<>>, <<>>),
      Download("https://dl/f.zip", "zip", <<"f">>, <<>>, <<>>) }

InitPackages ==
    /\ fn = "additionalPackages"
    /\ pc = "call"
    /\ ret = NoRet
    /\ heap = NoHeap
    /\ \E ds \in SeqsUpTo(DownloadInputs, MaxDownloads) :
         args = [recipe |-> [DefaultRecipe EXCEPT !.AdditionalDownloads = ds]]

CallAdditionalPackages ==
    /\ fn = "additionalPackages"
    /\ pc = "call"
    /\ ret' = additionalPackages(args.recipe)
    /\ pc' = "done"
    /\ UNCHANGED <<fn, args, heap>>

NextPackages == CallAdditionalPackages

SpecPackages == InitPackages /\ [][NextPackages]_vars

PackagesDone == fn = "additionalPackages" /\ pc = "done"

KnownFileType(d) == d.FileType \in {"tar", "executable", "rpm"}

MissingField(d) ==
    \/ d.FileType = "tar" /\ d.BinaryPath = <<>>
    \/ d.FileType = "executable" /\ d.FileName = <<>>
    \/ d.FileType = "rpm" /\ d.PackageName = <<>>

ValidDownload(d) == KnownFileType(d) /\ ~MissingField(d)

\* The failing line of a package that lacks its required field.
MissingFieldLine(d) ==
    CASE d.FileType = "tar" ->
           <<"echo 'Binary path not specified for package ", d.Uri[1], "'; exit 1">>
      [] d.FileType = "executable" ->
           <<"echo 'File name not specified for package ", d.Uri[1], "'; exit 1">>
      [] d.FileType = "rpm" ->
           <<"echo 'Package name not specified for rpm type'; exit 1">>

\* C16 as stated: for a package that lacks its required field, all others of
\* the list being valid, its failing line is in the output, the sections of
\* the packages before it remain (each carries its package's URI) and the
\* packages after it are in the output.
C16_AsStated ==
    PackagesDone =>
        LET ds == args.recipe.AdditionalDownloads
        IN  \A k \in 1..Len(ds) :
              (MissingField(ds[k]) /\ \A j \in 1..Len(ds) : j # k => ValidDownload(ds[j])) =>
                  /\ Contains(ret, MissingFieldLine(ds[k]))
                  /\ \A j \in 1..Len(ds) : j # k => InSeq(ds[j].Uri[1], ret)

\* C17 as stated: at the first package of unknown file type the output holds
\* the failing line naming the type and the URI, nothing of a later package,
\* and the sections of the valid packages before it.
C17_AsStated ==
    PackagesDone =>
        LET ds == args.recipe.AdditionalDownloads
        IN  \A k \in 1..Len(ds) :
              (~KnownFileType(ds[k]) /\ \A j \in 1..(k - 1) : KnownFileType(ds[j])) =>
                  /\ Contains(ret, <<"echo 'Unknown file type ", ds[k].FileType, " for package ",
                                     ds[k].Uri[1], "'; exit 1">>)
                  /\ \A j \in (k + 1)..Len(ds) :
                       (\A l \in 1..k : ds[l].Uri # ds[j].Uri) => ~InSeq(ds[j].Uri[1], ret)
                  /\ \A j \in 1..(k - 1) :
                       ValidDownload(ds[j]) => InSeq(ds[j].Uri[1], ret)

(***************************************************************************)
(* Specification SpecHooks: createPipelineSpec applied to recipes whose    *)
(* hooks hold ordinary lines or the text of a template placeholder.        *)
(***************************************************************************)
HookPreBuildScripts ==
    { <<>>, <<"./prepare.sh\n">>, <<"echo ", "{{POST_BUILD_SCRIPT}}", "\n">> }

HookPostBuildScripts ==
    { <<>>, <<"rm -rf target\n">>, <<"echo ", "{{PRE_BUILD_SCRIPT}}", "\n">> }

HookDownloads ==
    { <<>>, <<Download("https://dl/a.tar", "tar", <<>>, <<"bin">>, <<>>)>> }

InitHooks ==
    /\ fn = "createPipelineSpec"
    /\ pc = "call"
    /\ ret = NoRet
    /\ heap = NoHeap
    /\ \E tool \in {"maven", "sbt", "foo"}, pre \in HookPreBuildScripts,
          post \in HookPostBuildScripts, ds \in HookDownloads, cb \in BOOLEAN,
          ct \in CommitTimes,
          ex \in {<<>>, ("quay.io/builder:1-maven" :> <<"sha256:ffff">>)} :
         args = [tool |-> tool,
                 commitTime |-> ct,
                 jbsConfig |-> [DefaultJBSConfig EXCEPT !.Spec.ContainerBuilds = cb],
                 systemConfig |-> DefaultSystemConfig,
                 recipe |-> [DefaultRecipe EXCEPT !.PreBuildScript = pre,
                                                  !.PostBuildScript = post,
                                                  !.AdditionalDownloads = ds],
                 db |-> DefaultDependencyBuild,
                 paramValues |-> <<>>,
                 buildRequestProcessorImage |->
                     <<"quay.io/org/", "hacbs-jvm-build-request-processor", ":dev">>,
                 buildId |-> DefaultBuildId,
                 existingImages |-> ex]

NextHooks == CallCreatePipelineSpec

SpecHooks == InitHooks /\ [][NextHooks]_vars

\* C18 as stated: the build-tool section, the install section, the recipe's
\* pre-build hook and the recipe's post-build hook each appear verbatim in
\* the assembled script, whatever they contain.
C18_AsStated ==
    PipelineOk =>
        LET script == RunBuildShScript(ret.konfluxScript)
        IN  /\ Contains(script, buildToolSectionOf(args.tool))
            /\ Contains(script, additionalPackages(args.recipe))
            /\ Contains(script, args.recipe.PreBuildScript)
            /\ Contains(script, args.recipe.PostBuildScript)

(***************************************************************************)
(* Specification SpecSubstitution: doSubstitution applied to scripts that  *)
(* hold references and to lists of parameter values.                       *)
(***************************************************************************)
SubstitutionScripts ==
    { <<"$(params.CACHE_URL)">>,
      <<"curl ", "$(params.CACHE_URL)", "\n">>,
      <<"git clone ", "$(params.URL)", " ", "$(params.CACHE_URL)", " ", "$(params.CACHE_URL)">>,
      <<"ls ", "$(workspaces.source.path)">> }

SubstitutionParamInputs ==
    { StringParam(PipelineParamCacheUrl, <<"https://cache.example/v2/cache/rebuild">>),
      StringParam(PipelineParamScmUrl, <<"https://github.com/org/repo.git">>),
      ArrayParam(PipelineParamCacheUrl, << <<"https://cache.example/array">> >>),
      ArrayParam(PipelineParamGoals, << <<"-Dx=1">> >>) }

SubstitutionRepos == { <<>>, <<"-", "central", ",", "jboss">> }

InitSubstitution ==
    /\ fn = "doSubstitution"
    /\ pc = "call"
    /\ ret = NoRet
    /\ heap = NoHeap
    /\ \E sc \in SubstitutionScripts, ps \in SeqsUpTo(SubstitutionParamInputs, MaxParams),
          ct \in CommitTimes, br \in SubstitutionRepos :
         args = [script |-> sc, paramValues |-> ps, commitTime |-> ct, buildRepos |-> br]

CallDoSubstitution ==
    /\ fn = "doSubstitution"
    /\ pc = "call"
    /\ ret' = doSubstitution(args.script, args.paramValues, args.commitTime, args.buildRepos)
    /\ pc' = "done"
    /\ UNCHANGED <<fn, args, heap>>

NextSubstitution == CallDoSubstitution

SpecSubstitution == InitSubstitution /\ [][NextSubstitution]_vars

SubstitutionDone == fn = "doSubstitution" /\ pc = "done"

\* The number of places of text at which the run of atoms a starts.
Occurrences(text, a) ==
    Cardinality({k \in 1..(Len(text) - Len(a) + 1) : SubSeq(text, k, k + Len(a) - 1) = a})

\* C19 as stated: whatever the parameter values, the result holds the
\* loopback URL (fixed prefix, repository suffix, "/", commit time, "/") once
\* for every cache-URL reference of the script and no cache-URL reference.
C19_AsStated ==
    SubstitutionDone =>
        LET loopback == <<"http://localhost:8080/v2/cache/rebuild">> \o args.buildRepos
                            \o <<"/", ToString(args.commitTime), "/">>
        IN  /\ Occurrences(ret, loopback) = Occurrences(args.script, <<"$(params.CACHE_URL)">>)
            /\ ~InSeq("$(params.CACHE_URL)", ret)

(***************************************************************************)
(* Specification SpecSecrets: createPipelineSpec applied to tenant         *)
(* configurations with and without a registry secret, a Maven deployment   *)
(* repository and a Git source-archive identity.                           *)
(***************************************************************************)
InitSecrets ==
    /\ fn = "createPipelineSpec"
    /\ pc = "call"
    /\ ret = NoRet
    /\ heap = NoHeap
    /\ \E tool \in {"maven", "ant"}, sn \in {<<>>, <<"registry-secret">>},
          mr \in {<<>>, <<"https://maven.example/repo">>}, gi \in {<<>>, <<"jbs-bot">>},
          cb \in BOOLEAN, ct \in CommitTimes,
          ex \in {<<>>, ("quay.io/builder:1-maven" :> <<"sha256:ffff">>)} :
         args = [tool |-> tool,
                 commitTime |-> ct,
                 jbsConfig |-> [DefaultJBSConfig EXCEPT !.Spec.ContainerBuilds = cb,
                                                        !.Spec.Registry.SecretName = sn,
                                                        !.Spec.MavenDeployment.Repository = mr,
                                                        !.Spec.GitSourceArchive.Identity = gi],
                 systemConfig |-> DefaultSystemConfig,
                 recipe |-> DefaultRecipe,
                 db |-> DefaultDependencyBuild,
                 paramValues |-> <<>>,
                 buildRequestProcessorImage |->
                     <<"quay.io/org/", "hacbs-jvm-build-request-processor", ":dev">>,
                 buildId |-> DefaultBuildId,
                 existingImages |-> ex]

NextSecrets == CallCreatePipelineSpec

SpecSecrets == InitSecrets /\ [][NextSecrets]_vars

\* The secret-backed variables of the post-build verification step.
PostBuildSecrets(ps) ==
    SelectSeq(TheTask(ps, PostBuildTaskName).TaskSpec.Steps[2].Env, LAMBDA e : e.FromSecret)

\* The names the tenant configuration calls for, in order.
ExpectedSecretNames(jbsConfig) ==
    (IF jbsConfig.Spec.Registry.SecretName # <<>> THEN <<"REGISTRY_TOKEN">> ELSE <<>>)
    \o (IF jbsConfig.Spec.MavenDeployment.Repository # <<>>
        THEN <<"MAVEN_PASSWORD", "AWS_ACCESS_KEY_ID", "AWS_SECRET_ACCESS_KEY", "AWS_PROFILE">>
        ELSE <<>>)
    \o (IF jbsConfig.Spec.GitSourceArchive.Identity # <<>> THEN <<"GIT_DEPLOY_TOKEN">> ELSE <<>>)

\* C23: the secret variables of a step are REGISTRY_TOKEN exactly when a
\* registry secret name is configured, MAVEN_PASSWORD and the three AWS
\* variables exactly when a Maven deployment repository is configured and
\* GIT_DEPLOY_TOKEN exactly when a Git source-archive identity is configured,
\* in that order and nothing else; every secret-backed variable of every step
\* of the graph is optional.
C23_SecretVariables ==
    PipelineOk =>
        /\ NamesOf(PostBuildSecrets(ret.ps)) = ExpectedSecretNames(args.jbsConfig)
        /\ \A k \in 1..Len(ret.ps.Tasks) :
             \A i \in 1..Len(ret.ps.Tasks[k].TaskSpec.Steps) :
                 \A e \in 1..Len(ret.ps.Tasks[k].TaskSpec.Steps[i].Env) :
                     LET v == ret.ps.Tasks[k].TaskSpec.Steps[i].Env[e]
                     IN  v.FromSecret => v.Optional

\* C23 witness: a registry secret and a Git identity without a Maven
\* repository, on a cache miss, whose pre-build step binds GIT_TOKEN.
C23_Witness ==
    /\ PipelineOk
    /\ NamesOf(PostBuildSecrets(ret.ps)) = <<"REGISTRY_TOKEN", "GIT_DEPLOY_TOKEN">>
    /\ HasTask(ret.ps, PreBuildTaskName)
    /\ \E e \in 1..Len(TheTask(ret.ps, PreBuildTaskName).TaskSpec.Steps[1].Env) :
         LET v == TheTask(ret.ps, PreBuildTaskName).TaskSpec.Steps[1].Env[e]
         IN  v.Name = "GIT_TOKEN" /\ v.FromSecret /\ v.Optional

(***************************************************************************)
(* Specification SpecDeploy: createDeployPipelineSpec applied to tenant    *)
(* configurations, builder-processor images and lists of coordinates.      *)
(***************************************************************************)
InitDeploy ==
    /\ fn = "createDeployPipelineSpec"
    /\ pc = "call"
    /\ ret = NoRet
    /\ heap = NoHeap
    /\ \E bs \in LimitsBuildSettingsInputs, brp \in ProcessorImages,
          gavs \in {<<"org.foo:bar:1.0">>, <<"org.foo:bar:1.0", ",", "org.foo:baz:1.0">>} :
         args = [jbsConfig |-> [DefaultJBSConfig EXCEPT !.Spec.BuildSettings = bs],
                 buildRequestProcessorImage |-> brp,
                 gavs |-> gavs]

CallCreateDeployPipelineSpec ==
    /\ fn = "createDeployPipelineSpec"
    /\ pc = "call"
    /\ ret' = createDeployPipelineSpec(args.jbsConfig, args.buildRequestProcessorImage, args.gavs)
    /\ pc' = "done"
    /\ UNCHANGED <<fn, args, heap>>

NextDeploy == CallCreateDeployPipelineSpec

SpecDeploy == InitDeploy /\ [][NextDeploy]_vars

DeployOk == fn = "createDeployPipelineSpec" /\ pc = "done" /\ ret.err = "nil"

IsParamRef(a) == Len(a) >= 9 /\ SubSeq(a, 1, 9) = "$(params."

\* C28 as stated: every plan parameter the tag task's bindings refer to is
\* declared by the plan, and the names bound on the tag task are the names
\* its task spec declares, each bound once.
C28_AsStated ==
    DeployOk =>
        LET task == TheTask(ret.ps, TagTaskName)
            bound == {task.Params[i].Name : i \in 1..Len(task.Params)}
        IN  /\ \A i \in 1..Len(task.Params) :
                 \A j \in 1..Len(task.Params[i].Value.StringVal) :
                     LET a == task.Params[i].Value.StringVal[j]
                     IN  IsParamRef(a) =>
                             \E k \in 1..Len(ret.ps.Params) :
                                 a = Ref("params", ret.ps.Params[k].Name)
            /\ bound = DeclaredParams(task)
            /\ Cardinality(bound) = Len(task.Params)

(***************************************************************************)
(* Specification SpecAddresses: the three addresses createPipelineSpec and *)
(* pipelineBuildCommands compute for one build: registryArgsWithDefaults   *)
(* applied to buildId, to buildId + "-artifacts" and to imageId +          *)
(* "-pre-build-image".                                                     *)
(***************************************************************************)
IdLengths == {1, 2, MaxTagLength - 20} \cup ((MaxTagLength - TagSlack) .. (MaxTagLength + TagSlack))

InitAddresses ==
    /\ fn = "registryArgsWithDefaults"
    /\ pc = "call"
    /\ ret = NoRet
    /\ heap = NoHeap
    /\ \E n \in IdLengths, m \in IdLengths, c \in {"a", "b"}, pt \in {<<>>, <<"p">>} :
         args = [jbsConfig |-> [DefaultJBSConfig EXCEPT !.Spec.Registry.PrependTag = pt],
                 tags |-> <<Rep("a", n),
                            Rep("a", n) \o artifactsSuffix,
                            Rep(c, m) \o preBuildImageSuffix>>]

CallRegistryArgsForBuild ==
    /\ fn = "registryArgsWithDefaults"
    /\ pc = "call"
    /\ "tags" \in DOMAIN args
    /\ ret' = [k \in 1..Len(args.tags) |-> registryArgsWithDefaults(args.jbsConfig, args.tags[k])]
    /\ pc' = "done"
    /\ UNCHANGED <<fn, args, heap>>

NextAddresses == CallRegistryArgsForBuild

SpecAddresses == InitAddresses /\ [][NextAddresses]_vars

AddressesDone == fn = "registryArgsWithDefaults" /\ pc = "done" /\ "tags" \in DOMAIN args

\* C29 as stated: under one registry configuration the addresses of distinct
\* non-empty tags are distinct: those of buildId, of buildId + "-artifacts"
\* and of imageId + "-pre-build-image" are pairwise different, whatever the
\* length of the ids.
C29_AsStated ==
    AddressesDone =>
        \A j \in 1..Len(args.tags) : \A k \in 1..Len(args.tags) :
            (args.tags[j] # args.tags[k] /\ args.tags[j] # <<>> /\ args.tags[k] # <<>>)
                => ret[j] # ret[k]

(***************************************************************************)
(* Specification SpecUpdate: threads calling                               *)
(* RecipeRepositoryManager.doUpdate on one manager, while the clock        *)
(* advances and pulls succeed or fail.  heap holds the manager's           *)
(* lastUpdate, the owner of its monitor (0 when free) and the clock; pc    *)
(* holds every thread's position in doUpdate.                              *)
(***************************************************************************)
NumThreads == 2

MaxTime == 3

MaxInterval == 1

Threads == 1..NumThreads

UpdateIntervals == {<<>>} \cup {<<d>> : d \in 0..MaxInterval}

InitUpdate ==
    /\ fn = "doUpdate"
    /\ ret = NoRet
    /\ \E ui \in UpdateIntervals : args = [updateInterval |-> ui]
    /\ pc = [t \in Threads |-> "idle"]
    /\ heap = [lastUpdate |-> 0, monitor |-> 0, now |-> 0]

\* lastUpdate + updateInterval.get().toMillis() < System.currentTimeMillis()
Expired == heap.lastUpdate + args.updateInterval[1] < heap.now

\* A caller (getArtifactPaths, getBuildPaths, getRepositoryPaths) enters doUpdate.
Enter(t) ==
    /\ pc[t] = "idle"
    /\ pc' = [pc EXCEPT ![t] = "isEmpty"]
    /\ UNCHANGED <<fn, args, ret, heap>>

TestInterval(t) ==
    /\ pc[t] = "isEmpty"
    /\ pc' = [pc EXCEPT ![t] = IF args.updateInterval = <<>> THEN "idle" ELSE "check"]
    /\ UNCHANGED <<fn, args, ret, heap>>

Check(t) ==
    /\ pc[t] = "check"
    /\ pc' = [pc EXCEPT ![t] = IF Expired THEN "enter" ELSE "idle"]
    /\ UNCHANGED <<fn, args, ret, heap>>

Acquire(t) ==
    /\ pc[t] = "enter"
    /\ heap.monitor = 0
    /\ heap' = [heap EXCEPT !.monitor = t]
    /\ pc' = [pc EXCEPT ![t] = "recheck"]
    /\ UNCHANGED <<fn, args, ret>>

\* A second test that takes the interval for expired whatever lastUpdate is.
RecheckAlwaysExpired(t) ==
    /\ pc[t] = "recheck"
    /\ pc' = [pc EXCEPT ![t] = "pull"]
    /\ UNCHANGED <<fn, args, ret, heap>>

Recheck(t) ==
    /\ pc[t] = "recheck"
    /\ pc' = [pc EXCEPT ![t] = IF Expired THEN "pull" ELSE "exit"]
    /\ UNCHANGED <<fn, args, ret, heap>>

\* git.pull().call() returns.
PullOk(t) ==
    /\ pc[t] = "pull"
    /\ pc' = [pc EXCEPT ![t] = "set"]
    /\ UNCHANGED <<fn, args, ret, heap>>

\* git.pull().call() throws: the RuntimeException leaves the synchronized
\* block, which frees the monitor, and doUpdate.
PullFail(t) ==
    /\ pc[t] = "pull"
    /\ heap' = [heap EXCEPT !.monitor = 0]
    /\ pc' = [pc EXCEPT ![t] = "idle"]
    /\ UNCHANGED <<fn, args, ret>>

SetLastUpdate(t) ==
    /\ pc[t] = "set"
    /\ heap' = [heap EXCEPT !.lastUpdate = heap.now]
    /\ pc' = [pc EXCEPT ![t] = "exit"]
    /\ UNCHANGED <<fn, args, ret>>

Release(t) ==
    /\ pc[t] = "exit"
    /\ heap' = [heap EXCEPT !.monitor = 0]
    /\ pc' = [pc EXCEPT ![t] = "idle"]
    /\ UNCHANGED <<fn, args, ret>>

\* System.currentTimeMillis() advances.
Tick ==
    /\ heap.now < MaxTime
    /\ heap' = [heap EXCEPT !.now = @ + 1]
    /\ UNCHANGED <<fn, args, ret, pc>>

NextUpdate ==
    \/ \E t \in Threads : Enter(t)
    \/ \E t \in Threads : TestInterval(t)
    \/ \E t \in Threads : Check(t)
    \/ \E t \in Threads : Acquire(t)
    \/ \E t \in Threads : Recheck(t)
    \/ \E t \in Threads : PullOk(t)
    \/ \E t \in Threads : PullFail(t)
    \/ \E t \in Threads : SetLastUpdate(t)
    \/ \E t \in Threads : Release(t)
    \/ Tick

SpecUpdate == InitUpdate /\ [][NextUpdate]_vars

\* The threads inside the synchronized block.
InMonitor == {t \in Threads : pc[t] \in {"recheck", "pull", "set", "exit"}}

C30_Safe ==
    /\ Cardinality({t \in Threads : pc[t] = "pull"}) <= 1
    /\ Cardinality(InMonitor) <= 1
    /\ \A t \in InMonitor : heap.monitor = t
    /\ \A t \in Threads : pc[t] \in {"pull", "set"} => Expired
    /\ args.updateInterval = <<>> =>
         \A t \in Threads : pc[t] \in {"idle", "isEmpty"}

C30_Step ==
    /\ heap'.lastUpdate # heap.lastUpdate =>
         \E t \in Threads : pc[t] = "set" /\ pc'[t] = "exit" /\ heap'.lastUpdate = heap.now
    /\ \A t \in Threads :
         (pc[t] = "pull" /\ pc'[t] = "idle") =>
             heap'.lastUpdate = heap.lastUpdate /\ heap'.monitor = 0
    /\ \A t \in Threads :
         (pc[t] = "recheck" /\ ~Expired) => pc'[t] # "pull"

====
